---- MODULE Spec2Model ----
(***************************************************************************)
(* Block-level retry engine of MultiAgentOrchestrator                      *)
(* (src/core/orchestrator.py) with the retry trackers of                   *)
(* src/models/task.py, the task compiler of src/core/template_loader.py    *)
(* and the task execution of src/core/agent.py.                            *)
(*                                                                         *)
(* Python strings on which the code does substring or suffix tests (phase  *)
(* names, task ids, execution output) are sequences of one-character       *)
(* strings, so that `in`, endswith and lower() are computed as the code    *)
(* computes them.  Strings the code only stores are TLA+ strings.          *)
(***************************************************************************)
EXTENDS Integers, Sequences, FiniteSets, TLC

VARIABLES
    workflow,        \* project_template.workflow['phases']: list of phase_info
    template_tasks,  \* project_template.tasks: phase name -> task_info
    workflow_tasks,  \* self.workflow_tasks: compiled AgentTask list
    max_retries,     \* self.max_retries (constructor argument / --max-retries)
    results,         \* self.results: phase name -> AgentResult
    retry_trackers,  \* self.retry_trackers: phase name -> PhaseRetryTracker
    workflow_blocks, \* local workflow_blocks: ordered list of (name, phases)
    block_idx,       \* position of the outer for loop over workflow_blocks
    retry_count,     \* local retry_count of the current block
    phase_idx,       \* position of the inner for loop over block_phases
    block_success,   \* local block_success of the current attempt
    failed_phase,    \* local failed_phase of the current attempt
    error,           \* the exception execute_workflow raised, or None
    project_files,   \* files that exist under self.project_dir
    system_logs,     \* log_manager.system_logs: the events of the orchestrator
    in_flight,       \* phases whose execute_task has started and not yet returned
    artifacts,       \* list the last _detect_created_files call returned, or None
    pc               \* "idle" | "running" | "returned" | "raised"

vars == <<workflow, template_tasks, workflow_tasks, max_retries, results,
          retry_trackers, workflow_blocks, block_idx, retry_count, phase_idx,
          block_success, failed_phase, error, project_files, system_logs,
          in_flight, artifacts, pc>>

\* Python None (no phase name, task, text or exception is ever empty)
None == <<>>

\* ------------------------------------------------------------------ bounds
\* longest workflow (number of declared phases) the inputs are drawn from
MaxPhases == 2

\* ----------------------------------------------------------------- strings
UpperChars == <<"A","B","C","D","E","F","G","H","I","J","K","L","M",
                "N","O","P","Q","R","S","T","U","V","W","X","Y","Z">>
LowerChars == <<"a","b","c","d","e","f","g","h","i","j","k","l","m",
                "n","o","p","q","r","s","t","u","v","w","x","y","z">>

\* str.lower() on one character
LowerChar(c) ==
    IF \E i \in 1..Len(UpperChars) : UpperChars[i] = c
    THEN LowerChars[CHOOSE i \in 1..Len(UpperChars) : UpperChars[i] = c]
    ELSE c

\* str.lower()
Lower(s) == [i \in 1..Len(s) |-> LowerChar(s[i])]

\* Python `kw in s` on strings
Contains(kw, s) ==
    \E i \in 1..(Len(s) - Len(kw) + 1) : SubSeq(s, i, i + Len(kw) - 1) = kw

\* str.endswith
EndsWith(s, suffix) ==
    /\ Len(suffix) <= Len(s)
    /\ SubSeq(s, Len(s) - Len(suffix) + 1, Len(s)) = suffix

\* any(keyword in p.lower() for keyword in keywords)
AnyKeyword(keywords, p) == \E kw \in keywords : Contains(kw, Lower(p))

\* [x for x in s if Test(x)]
RECURSIVE SelectPhases(_, _)
SelectPhases(s, keywords) ==
    IF s = <<>> THEN <<>>
    ELSE IF AnyKeyword(keywords, Head(s))
         THEN <<Head(s)>> \o SelectPhases(Tail(s), keywords)
         ELSE SelectPhases(Tail(s), keywords)

Range(s) == {s[i] : i \in 1..Len(s)}

\* all orderings of a finite set (the iteration orders list(set) can produce)
Orderings(S) ==
    {f \in [1..Cardinality(S) -> S] : \A i, j \in 1..Cardinality(S) : f[i] = f[j] => i = j}

\* ------------------------------------------------------- keyword constants
kw_planning        == <<"p","l","a","n","n","i","n","g">>
kw_concept         == <<"c","o","n","c","e","p","t">>
kw_ui              == <<"u","i">>
kw_design          == <<"d","e","s","i","g","n">>
kw_wireframe       == <<"w","i","r","e","f","r","a","m","e">>
kw_schema          == <<"s","c","h","e","m","a">>
kw_database_design == <<"d","a","t","a","b","a","s","e","_","d","e","s","i","g","n">>
kw_development     == <<"d","e","v","e","l","o","p","m","e","n","t">>
kw_dev             == <<"d","e","v">>
kw_test            == <<"t","e","s","t">>
kw_testing         == <<"t","e","s","t","i","n","g">>
kw_qa              == <<"q","a">>
kw_bug_fixing      == <<"b","u","g","_","f","i","x","i","n","g">>
kw_retesting       == <<"r","e","t","e","s","t","i","n","g">>
kw_security        == <<"s","e","c","u","r","i","t","y">>
kw_audit           == <<"a","u","d","i","t">>
kw_verification    == <<"v","e","r","i","f","i","c","a","t","i","o","n">>
kw_no_retry        == <<"n","o","_","r","e","t","r","y">>

PlanningKeywords == {kw_planning, kw_concept}
DesignKeywords   == {kw_ui, kw_design, kw_wireframe, kw_schema, kw_database_design}
DevTestKeywords  == {kw_development, kw_dev, kw_test, kw_testing, kw_qa,
                     kw_bug_fixing, kw_retesting}
SecurityKeywords == {kw_security, kw_audit}

\* block names (dict keys of _define_workflow_blocks)
planning_no_retry   == <<"p","l","a","n","n","i","n","g","_","n","o","_","r","e","t","r","y">>
design              == kw_design
development_testing == <<"d","e","v","e","l","o","p","m","e","n","t","_","t","e","s","t","i","n","g">>
security            == kw_security
misc                == <<"m","i","s","c">>


\* ------------------------------------------------------------- agent roles
pm                == <<"p","m">>
ui_designer       == <<"u","i","_","d","e","s","i","g","n","e","r">>
python_developer  == <<"p","y","t","h","o","n","_","d","e","v","e","l","o","p","e","r">>
tester            == <<"t","e","s","t","e","r">>
security_engineer == <<"s","e","c","u","r","i","t","y","_","e","n","g","i","n","e","e","r">>

\* AgentRole enum values; every role has an agent definition available
AvailableRoles == {pm, ui_designer, python_developer, tester, security_engineer}

\* ------------------------------------------------ phase names of the inputs
ph_planning    == kw_planning
ph_ui_design   == <<"u","i","_","d","e","s","i","g","n">>
ph_development == kw_development
ph_testing     == kw_testing
ph_UI_test     == <<"U","I","_","t","e","s","t">>
ph_deploy      == <<"d","e","p","l","o","y">>

\* the phase_info entries (phase, agent) the input workflows are built from
PhaseCatalog ==
    << [phase |-> ph_planning,    agent |-> pm],
       [phase |-> ph_ui_design,   agent |-> ui_designer],
       [phase |-> ph_development, agent |-> python_developer],
       [phase |-> ph_testing,     agent |-> tester],
       [phase |-> ph_UI_test,     agent |-> tester],
       [phase |-> ph_deploy,      agent |-> python_developer] >>

\* ------------------------------------------------------------ block planner
\* all_phases = [phase_info['phase'] for phase_info in workflow['phases']]
AllPhases(wf) == [i \in 1..Len(wf) |-> wf[i].phase]

\* faulty variant: the planning block is named without the no-retry marker
KeywordBlocks_PlanningRetryable(all_phases) ==
    LET planning_phases == SelectPhases(all_phases, PlanningKeywords)
        ui_phases       == SelectPhases(all_phases, DesignKeywords)
        dev_test_phases == SelectPhases(all_phases, DevTestKeywords)
        security_phases == SelectPhases(all_phases, SecurityKeywords)
        Block(n, ps)    == IF ps # <<>> THEN <<[name |-> n, phases |-> ps]>> ELSE <<>>
    IN  Block(kw_planning, planning_phases)
        \o Block(design, ui_phases)
        \o Block(development_testing, dev_test_phases)
        \o Block(security, security_phases)

\* the four keyword blocks, in insertion order, empty ones left out
KeywordBlocks(all_phases) ==
    LET planning_phases == SelectPhases(all_phases, PlanningKeywords)
        ui_phases       == SelectPhases(all_phases, DesignKeywords)
        dev_test_phases == SelectPhases(all_phases, DevTestKeywords)
        security_phases == SelectPhases(all_phases, SecurityKeywords)
        Block(n, ps)    == IF ps # <<>> THEN <<[name |-> n, phases |-> ps]>> ELSE <<>>
    IN  Block(planning_no_retry, planning_phases)
        \o Block(design, ui_phases)
        \o Block(development_testing, dev_test_phases)
        \o Block(security, security_phases)

\* uncovered_phases = set(all_phases) - covered_phases
UncoveredPhases(all_phases) ==
    LET blocks == KeywordBlocks(all_phases)
    IN  Range(all_phases) \ UNION {Range(blocks[i].phases) : i \in 1..Len(blocks)}

\* faulty variant: the catch-all block is emitted first
DefineWorkflowBlocks_MiscFirst(all_phases, misc_order) ==
    (IF UncoveredPhases(all_phases) # {}
     THEN <<[name |-> misc, phases |-> misc_order]>>
     ELSE <<>>)
    \o KeywordBlocks(all_phases)

\* _define_workflow_blocks; misc_order is the order list(uncovered_phases) yields
DefineWorkflowBlocks(all_phases, misc_order) ==
    KeywordBlocks(all_phases)
    \o (IF UncoveredPhases(all_phases) # {}
        THEN <<[name |-> misc, phases |-> misc_order]>>
        ELSE <<>>)

\* ------------------------------------------------------------ task compiler
underscore == <<"_">>

\* f"{agent_name}_{phase_name}"
TaskId(agent_name, phase_name) == agent_name \o underscore \o phase_name

\* TemplateLoader.create_agent_tasks
RECURSIVE CreateAgentTasks(_, _)
CreateAgentTasks(wf, tasks) ==
    IF wf = <<>> THEN <<>>
    ELSE LET phase_info == Head(wf)
         IN  IF phase_info.phase \notin DOMAIN tasks \/ phase_info.agent \notin AvailableRoles
             THEN CreateAgentTasks(Tail(wf), tasks)
             ELSE <<[role          |-> phase_info.agent,
                     task_id       |-> TaskId(phase_info.agent, phase_info.phase),
                     context_files |-> tasks[phase_info.phase].context_files]>>
                  \o CreateAgentTasks(Tail(wf), tasks)

\* --------------------------------------------------------- lookup functions
\* _find_task_for_phase: first task whose id ends with "_<phase_name>"
FindTaskForPhase(tasks, phase_name) ==
    LET hits == {i \in 1..Len(tasks) : EndsWith(tasks[i].task_id, underscore \o phase_name)}
    IN  IF hits = {} THEN None
        ELSE tasks[CHOOSE i \in hits : \A j \in hits : i <= j]

\* _get_available_context_files: [f for f in file_list if (project_dir / f).exists()]
GetAvailableContextFiles(file_list, files) ==
    SelectSeq(file_list, LAMBDA f : f \in files)

\* task.context_files = context_files (line 164): the task object found by
\* _find_task_for_phase is an element of self.workflow_tasks
UpdateContextFiles(tasks, phase_name, files) ==
    LET hits == {i \in 1..Len(tasks) : EndsWith(tasks[i].task_id, underscore \o phase_name)}
        first == CHOOSE i \in hits : \A j \in hits : i <= j
    IN  [tasks EXCEPT ![first].context_files =
             GetAvailableContextFiles(tasks[first].context_files, files)]

\* _get_phase_info: first phase_info with that name
GetPhaseInfo(wf, phase_name) ==
    LET hits == {i \in 1..Len(wf) : wf[i].phase = phase_name}
    IN  IF hits = {} THEN None
        ELSE wf[CHOOSE i \in hits : \A j \in hits : i <= j]

\* faulty variant: an entry is enough, its success flag is not read
CheckDependencies_PresenceOnly(res, dependencies) ==
    \A i \in 1..Len(dependencies) : dependencies[i] \in DOMAIN res

\* _check_dependencies
CheckDependencies(res, dependencies) ==
    \A i \in 1..Len(dependencies) :
        dependencies[i] \in DOMAIN res /\ res[dependencies[i]].success


\* ------------------------------------------------------ external execution
out_done   == <<"d","o","n","e">>
out_passed == <<"a","l","l"," ","p","a","s","s","e","d">>
out_Error  == <<"1"," ","E","r","r","o","r">>

out_error  == <<"e","r","r","o","r">>

\* response texts the agent of a role produces in the modelled runs
ResponseTexts(role) == IF role = tester THEN {out_passed, out_Error} ELSE {out_done}

\* what happens around one call of the external capability: the SDK answers
\* with a text, the call exceeds its timeout, the SDK raises, or a step of
\* the agent outside the SDK call raises (writing the conversation log)
SdkResponse(text) == [kind |-> "response", text |-> text]
SdkTimeout        == [kind |-> "timeout", text |-> <<>>]
SdkError          == [kind |-> "sdk_error", text |-> <<>>]
AgentError        == [kind |-> "agent_error", text |-> <<>>]

\* the events of the runs in which the SDK answers
ExecutionEvents(role) == {SdkResponse(o) : o \in ResponseTexts(role)} \cup {AgentError}

\* the further events: the call times out, the SDK raises, or (tester) the
\* answer is a text with the word error in lower case
FurtherEvents(role) ==
    {SdkTimeout, SdkError} \cup (IF role = tester THEN {SdkResponse(out_error)} ELSE {})

fallback_prefix ==
    <<"F","a","l","l","b","a","c","k",":"," ","M","o","c","k"," ",
      "C","l","a","u","d","e"," ","C","o","d","e"," ",
      "r","e","s","p","o","n","s","e"," ","f","o","r"," ">>
fallback_task   == <<" ","t","a","s","k",":"," ">>
fallback_dots   == <<".",".",".">>

\* f"Fallback: Mock Claude Code response for {role} task: {task_id[:10]}..."
FallbackResponse(role, task_id) ==
    fallback_prefix \o role \o fallback_task
    \o SubSeq(task_id, 1, IF Len(task_id) < 10 THEN Len(task_id) ELSE 10)
    \o fallback_dots

\* _run_claude_code_sdk with the SDK importable: the inner `except Exception`
\* turns a timeout of wait_for and an exception of the query into the
\* fallback text; an exception raised after it propagates to execute_task
RunClaudeCodeSdk(role, task_id, event) ==
    IF event.kind = "response"
    THEN [raised |-> FALSE, output |-> event.text, error_msg |-> None]
    ELSE IF event.kind \in {"timeout", "sdk_error"}
    THEN [raised |-> FALSE, output |-> FallbackResponse(role, task_id), error_msg |-> None]
    ELSE [raised |-> TRUE, output |-> <<>>, error_msg |-> "conversation log not writable"]

\* execute_task: success with the text _run_claude_code_sdk returned, or the
\* except branch with str(e) (no artifacts reported)
ExecuteTask(task, event) ==
    LET run == RunClaudeCodeSdk(task.role, task.task_id, event)
    IN  IF run.raised
        THEN [success |-> FALSE, output |-> <<>>, errors |-> run.error_msg]
        ELSE [success |-> TRUE, output |-> run.output, errors |-> None]

\* ---------------------------------------------------------- phase evaluator
\* faulty variant: the phase name is matched without lower()
IsTestingPhase_CaseSensitive(phase_name) ==
    \E kw \in {kw_test, kw_testing, kw_qa, kw_verification} : Contains(kw, phase_name)

\* _is_testing_phase
IsTestingPhase(phase_name) ==
    AnyKeyword({kw_test, kw_testing, kw_qa, kw_verification}, phase_name)

bug_indicators ==
    << <<<<"f","a","i","l","e","d">>, "test failures detected">>,
       <<<<"e","r","r","o","r">>, "errors found in testing">>,
       <<<<"e","x","c","e","p","t","i","o","n">>, "exceptions during testing">>,
       <<<<"b","u","g">>, "bugs identified">>,
       <<<<"i","s","s","u","e">>, "issues found">>,
       <<<<"p","r","o","b","l","e","m">>, "problems detected">>,
       <<<<"f","i","x">>, "fixes needed">> >>

RECURSIVE ScanIndicators(_, _)
ScanIndicators(indicators, output_lower) ==
    IF indicators = <<>> THEN <<>>
    ELSE (IF Contains(Head(indicators)[1], output_lower)
          THEN <<Head(indicators)[2]>> ELSE <<>>)
         \o ScanIndicators(Tail(indicators), output_lower)

\* _analyze_test_results (the result carries no artifacts to scan)
AnalyzeTestResults(output) == ScanIndicators(bug_indicators, Lower(output))

\* faulty variant: the flag is set and the reason is dropped
SetRetryRequired_FlagOnly(result, reason) ==
    [result EXCEPT !.requires_retry = TRUE]

\* AgentResult.set_retry_required
SetRetryRequired(result, reason) ==
    [result EXCEPT !.requires_retry = TRUE, !.retry_reason = reason]

\* lines 184-202 of _execute_phase; valid is what _validate_development_result
\* returns (app.py present and py_compile exit status 0)
EvaluateResult(phase_name, result, valid) ==
    IF ~result.success
    THEN SetRetryRequired(result, <<"Phase execution failed: ", result.errors>>)
    ELSE IF IsTestingPhase(phase_name)
    THEN (IF AnalyzeTestResults(result.output) # <<>>
          THEN SetRetryRequired(result, <<"Bugs found during testing: ",
                                          AnalyzeTestResults(result.output)>>)
          ELSE result)
    ELSE IF Lower(phase_name) \in {kw_development, kw_bug_fixing}
    THEN (IF ~valid
          THEN SetRetryRequired(result,
                   <<"Development validation failed - code has runtime errors">>)
          ELSE result)
    ELSE result

\* the AgentResult execute_task builds; execution_log stands for the
\* AgentExecutionLog of this execution, its start time abstracted to the
\* block attempt in progress when log_agent_start ran
AgentResult(task, outcome, log) ==
    [success        |-> outcome.success,
     output         |-> outcome.output,
     task_id        |-> task.task_id,
     errors         |-> outcome.errors,
     execution_log  |-> log,
     requires_retry |-> FALSE,
     retry_reason   |-> None]

\* self.results[phase_name] = result
StoreResult(res, phase_name, result) ==
    [p \in DOMAIN res \cup {phase_name} |-> IF p = phase_name THEN result ELSE res[p]]

\* faulty variant: the clear step empties the whole map
ClearBlockResults_WholeMap(res, phases) ==
    [p \in {q \in DOMAIN res : FALSE} |-> res[p]]

\* faulty variant: only the failed phase's result is dropped
ClearBlockResults_OnlyFailed(res, phases) ==
    [p \in DOMAIN res \ {failed_phase} |-> res[p]]

\* for phase_name in block_phases: if phase_name in self.results: del ...
ClearBlockResults(res, phases) ==
    [p \in DOMAIN res \ Range(phases) |-> res[p]]

\* ----------------------------------------------------------- retry trackers
\* getattr(self, 'max_cross_phase_retries', 3): the attribute is never set
max_cross_phase_retries == 3

\* PhaseRetryTracker(phase_name=..., max_retries=...)
PhaseRetryTracker(phase_name) ==
    [phase_name    |-> phase_name,
     retry_count   |-> 0,
     max_retries   |-> max_cross_phase_retries,
     retry_history |-> <<>>,
     triggered_by  |-> None,
     retry_reason  |-> None]

\* faulty variant: at the ceiling can_retry still answers true
CanRetry_Inclusive(tracker) == tracker.retry_count <= tracker.max_retries

\* PhaseRetryTracker.can_retry
CanRetry(tracker) == tracker.retry_count < tracker.max_retries

\* faulty variant: the counter stops at the ceiling, the history still grows
AddRetryAttempt_Saturating(tracker, triggered_by, reason) ==
    LET count == IF tracker.retry_count < tracker.max_retries
                 THEN tracker.retry_count + 1 ELSE tracker.retry_count
    IN  [tracker EXCEPT
            !.retry_count   = count,
            !.triggered_by  = triggered_by,
            !.retry_reason  = reason,
            !.retry_history = Append(@, [attempt      |-> count,
                                         triggered_by |-> triggered_by,
                                         reason       |-> reason])]

\* PhaseRetryTracker.add_retry_attempt (the wall-clock timestamp of the
\* history entry is left out)
AddRetryAttempt(tracker, triggered_by, reason) ==
    [tracker EXCEPT
        !.retry_count   = @ + 1,
        !.triggered_by  = triggered_by,
        !.retry_reason  = reason,
        !.retry_history = Append(@, [attempt      |-> tracker.retry_count + 1,
                                     triggered_by |-> triggered_by,
                                     reason       |-> reason])]

\* faulty variant: the last declared phase gets no tracker
InitRetryTrackers_SkipsLast(trackers, wf) ==
    [p \in DOMAIN trackers \cup Range(SubSeq(AllPhases(wf), 1, Len(AllPhases(wf)) - 1)) |->
        IF p \in Range(AllPhases(wf)) THEN PhaseRetryTracker(p) ELSE trackers[p]]

\* execute_workflow lines 121-127
InitRetryTrackers(trackers, wf) ==
    [p \in DOMAIN trackers \cup Range(AllPhases(wf)) |->
        IF p \in Range(AllPhases(wf)) THEN PhaseRetryTracker(p) ELSE trackers[p]]


\* --------------------------------------------------------------- system log
\* SystemLog(level, component, message); the timestamp is left out and the
\* details dictionary is not recorded
SystemLog(level, component, message) ==
    [level |-> level, component |-> component, message |-> message]

\* LogManager.log_system_event: self.system_logs.append(system_log)
LogSystemEvent(logs, level, component, message) ==
    Append(logs, SystemLog(level, component, message))

\* the events of __init__: template loaded, system initialized
InitialSystemLogs ==
    <<SystemLog("info", "template_loader", <<"Template loaded successfully">>),
      SystemLog("info", "orchestrator", <<"Multi-agent system initialized">>)>>

\* execute_workflow line 115
LogWorkflowStart(logs) ==
    LogSystemEvent(logs, "info", "orchestrator", <<"Starting workflow execution">>)

\* execute_workflow line 132
LogWorkflowCompleted(logs) ==
    LogSystemEvent(logs, "info", "orchestrator",
                   <<"Workflow execution completed successfully">>)

\* execute_workflow lines 136-139; e is the exception that is re-raised
LogWorkflowFailed(logs, e) ==
    LogSystemEvent(logs, "error", "orchestrator", <<"Workflow execution failed: ", e>>)

\* ------------------------------------------------------------------- inputs
\* n distinct catalog phases, declared in catalog order or in the reverse order
PhaseOrders(n) ==
    LET picks == {f \in [1..n -> 1..Len(PhaseCatalog)] :
                      \A i \in 1..(n - 1) : f[i] < f[i + 1]}
    IN  {[i \in 1..n |-> PhaseCatalog[f[i]]] : f \in picks}
        \cup {[i \in 1..n |-> PhaseCatalog[f[n + 1 - i]]] : f \in picks}

\* at most one phase declares a dependency: <<0, 0>> = nobody does,
\* <<i, j>> = the i-th declared phase depends on the j-th (earlier or later)
DependencyChoices(n) ==
    {<<0, 0>>} \cup {d \in (1..n) \X (1..n) : d[1] # d[2]}

\* ordered phase lists with distinct names and their dependency lists
Workflows ==
    UNION { { [i \in 1..n |->
                 [phase        |-> o[i].phase,
                  agent        |-> o[i].agent,
                  dependencies |-> IF d[1] = i THEN <<o[d[2]].phase>> ELSE <<>>]]
              : o \in PhaseOrders(n), d \in DependencyChoices(n) }
            : n \in 1..MaxPhases }

\* retry ceilings the caller configures: the default of the constructor
\* (max_retries: int = 3) and the default of --max-retries (5)
RetryCeilings == {3, 5}

\* a task_info that declares the context files fs
TaskInfo(fs) == [context_files |-> fs]

\* task catalogs (template.tasks): at most one declared phase lacks its
\* entry; no entry declares a context file
TaskCatalogs(wf) ==
    {[p \in ps |-> TaskInfo(<<>>)] :
        ps \in {Range(AllPhases(wf))}
               \cup {Range(AllPhases(wf)) \ {p} : p \in Range(AllPhases(wf))}}

\* ------------------------------------------------------------ initial state
\* state after MultiAgentOrchestrator.__init__: template loaded and compiled
Init ==
    /\ workflow \in Workflows
    /\ template_tasks \in TaskCatalogs(workflow)
    /\ workflow_tasks = CreateAgentTasks(workflow, template_tasks)
    /\ max_retries \in RetryCeilings
    /\ results = <<>>
    /\ retry_trackers = <<>>
    /\ workflow_blocks = <<>>
    /\ block_idx = 0
    /\ retry_count = 0
    /\ phase_idx = 0
    /\ block_success = TRUE
    /\ failed_phase = None
    /\ error = None
    /\ project_files = {}
    /\ system_logs = InitialSystemLogs
    /\ in_flight = {}
    /\ artifacts = None
    /\ pc = "idle"

\* ------------------------------------------------------- locals of the loop
max_block_retries == 5

block_name   == workflow_blocks[block_idx].name
block_phases == workflow_blocks[block_idx].phases

\* faulty variant: the no-retry marker in the block name is not honoured
IsNoRetryBlock_Ignored(name) == FALSE

\* is_no_retry_block = 'no_retry' in block_name
IsNoRetryBlock(name) == Contains(kw_no_retry, name)

\* effective_max_retries = 1 if is_no_retry_block else max_block_retries
EffectiveMaxRetries(name) == IF IsNoRetryBlock(name) THEN 1 ELSE max_block_retries

\* faulty variant: the loop goes on after a failed phase (no break)
InPhaseLoop_NoBreak ==
    /\ pc = "running"
    /\ phase_idx <= Len(block_phases)

\* the for loop over block_phases still has a phase to handle
InPhaseLoop ==
    /\ pc = "running"
    /\ block_success
    /\ phase_idx <= Len(block_phases)

\* the for loop has ended, by exhaustion or by break
AttemptOver ==
    /\ pc = "running"
    /\ (~block_success \/ phase_idx > Len(block_phases))

phase_name   == block_phases[phase_idx]
phase_info   == GetPhaseInfo(workflow, phase_name)
dependencies == phase_info.dependencies

\* the phase passes `if not phase_info: continue` and the dependency gate
GateOpen == phase_info # None /\ CheckDependencies(results, dependencies)


\* ------------------------------------------------------------------ actions
\* execute_workflow up to the first block: trackers created, blocks planned
ExecuteWorkflow ==
    /\ pc = "idle"
    /\ retry_trackers' = InitRetryTrackers(retry_trackers, workflow)
    /\ \E misc_order \in Orderings(UncoveredPhases(AllPhases(workflow))) :
          workflow_blocks' = DefineWorkflowBlocks(AllPhases(workflow), misc_order)
    /\ block_idx' = 1
    /\ retry_count' = 0
    /\ phase_idx' = 1
    /\ block_success' = TRUE
    /\ failed_phase' = None
    /\ pc' = IF workflow_blocks' = <<>> THEN "returned" ELSE "running"
    /\ system_logs' = IF workflow_blocks' = <<>>
                      THEN LogWorkflowCompleted(LogWorkflowStart(system_logs))
                      ELSE LogWorkflowStart(system_logs)
    /\ UNCHANGED <<workflow, template_tasks, workflow_tasks, max_retries, results,
                   error, project_files, artifacts, in_flight>>

\* faulty variant: a gated phase marks the attempt as failed
SkipPhase_MarksFailure ==
    /\ InPhaseLoop
    /\ ~GateOpen
    /\ block_success' = FALSE
    /\ failed_phase' = phase_name
    /\ UNCHANGED <<workflow, template_tasks, workflow_tasks, max_retries, results,
                   retry_trackers, workflow_blocks, block_idx, retry_count, phase_idx,
                   error, project_files, artifacts, system_logs, in_flight, pc>>

\* lines 408-417: no phase_info, or dependencies unmet: continue
SkipPhase ==
    /\ InPhaseLoop
    /\ ~GateOpen
    /\ phase_idx' = phase_idx + 1
    /\ UNCHANGED <<workflow, template_tasks, workflow_tasks, max_retries, results,
                   retry_trackers, workflow_blocks, block_idx, retry_count,
                   block_success, failed_phase, error, project_files, artifacts,
                   system_logs, in_flight, pc>>

\* _execute_phase: run the task, store the result, annotate it
ExecutePhaseResult(res, name, task, outcome, valid, log) ==
    StoreResult(res, name, EvaluateResult(name, AgentResult(task, outcome, log), valid))

\* faulty variant: a result flagged by the evaluator fails the attempt
PhaseFailed_HonoursFlag(result) == ~result.success \/ result.requires_retry

\* line 425: `if not result or not result.success` (execute_task always
\* returns a result)
PhaseFailed(result) == ~result.success

\* lines 420-429 for one event of the external call: the task's context
\* files are refreshed, the task is executed, the result stored and annotated
RunPhase(event, valid) ==
    /\ workflow_tasks' = UpdateContextFiles(workflow_tasks, phase_name, project_files)
    /\ results' = ExecutePhaseResult(results, phase_name,
                      FindTaskForPhase(workflow_tasks', phase_name),
                      ExecuteTask(FindTaskForPhase(workflow_tasks', phase_name), event),
                      valid, [block |-> block_name, attempt |-> retry_count + 1])
    /\ IF ~PhaseFailed(results'[phase_name])
       THEN /\ phase_idx' = phase_idx + 1
            /\ UNCHANGED <<block_success, failed_phase>>
       ELSE /\ block_success' = FALSE
            /\ failed_phase' = phase_name
            /\ UNCHANGED phase_idx
    /\ UNCHANGED <<workflow, template_tasks, max_retries, retry_trackers,
                   workflow_blocks, block_idx, retry_count, error, project_files,
                   artifacts, system_logs>>

\* lines 420-429: a task is found and executed, the SDK answering
ExecutePhase ==
    /\ InPhaseLoop
    /\ GateOpen
    /\ FindTaskForPhase(workflow_tasks, phase_name) # None
    /\ \E event \in ExecutionEvents(FindTaskForPhase(workflow_tasks, phase_name).role),
          valid \in BOOLEAN : RunPhase(event, valid)
    /\ UNCHANGED <<in_flight, pc>>

\* lines 420-429: a task is found and executed, one of the further events
\* happening at the external call
ExecutePhaseFurther ==
    /\ InPhaseLoop
    /\ GateOpen
    /\ FindTaskForPhase(workflow_tasks, phase_name) # None
    /\ \E event \in FurtherEvents(FindTaskForPhase(workflow_tasks, phase_name).role),
          valid \in BOOLEAN : RunPhase(event, valid)
    /\ UNCHANGED <<in_flight, pc>>

\* lines 430-434: no task for the phase
NoTaskForPhase ==
    /\ InPhaseLoop
    /\ GateOpen
    /\ FindTaskForPhase(workflow_tasks, phase_name) = None
    /\ block_success' = FALSE
    /\ failed_phase' = phase_name
    /\ UNCHANGED <<workflow, template_tasks, workflow_tasks, max_retries, results,
                   retry_trackers, workflow_blocks, block_idx, retry_count, phase_idx,
                   error, project_files, artifacts, system_logs, in_flight, pc>>

\* faulty variant: a completed block that is not the last one is run again
BlockCompleted_Repeats ==
    /\ AttemptOver
    /\ block_success
    /\ IF block_idx < Len(workflow_blocks)
       THEN /\ block_idx' = block_idx
            /\ retry_count' = 0
            /\ phase_idx' = 1
            /\ UNCHANGED <<pc, system_logs>>
       ELSE /\ pc' = "returned"
            /\ system_logs' = LogWorkflowCompleted(system_logs)
            /\ UNCHANGED <<block_idx, retry_count, phase_idx>>
    /\ UNCHANGED <<workflow, template_tasks, workflow_tasks, max_retries, results,
                   retry_trackers, workflow_blocks, block_success, failed_phase,
                   error, project_files, artifacts, in_flight>>

\* lines 436-438: block done; next block, or execute_workflow returns
BlockCompleted ==
    /\ AttemptOver
    /\ block_success
    /\ IF block_idx < Len(workflow_blocks)
       THEN /\ block_idx' = block_idx + 1
            /\ retry_count' = 0
            /\ phase_idx' = 1
            /\ UNCHANGED <<pc, system_logs>>
       ELSE /\ pc' = "returned"
            /\ system_logs' = LogWorkflowCompleted(system_logs)
            /\ UNCHANGED <<block_idx, retry_count, phase_idx>>
    /\ UNCHANGED <<workflow, template_tasks, workflow_tasks, max_retries, results,
                   retry_trackers, workflow_blocks, block_success, failed_phase,
                   error, project_files, artifacts, in_flight>>

\* faulty variant: the exception names the block's first phase, not the failed one
BlockFailure_FirstPhase(kind, name, phase, attempts) ==
    [kind |-> kind, block |-> name, phase |-> block_phases[1], attempts |-> attempts]

\* the exception of lines 443 and 456
BlockFailure(kind, name, phase, attempts) ==
    [kind |-> kind, block |-> name, phase |-> phase, attempts |-> attempts]

\* lines 440-443: a no-retry block failed
NoRetryAbort ==
    /\ AttemptOver
    /\ ~block_success
    /\ IsNoRetryBlock(block_name)
    /\ retry_count' = retry_count + 1
    /\ error' = BlockFailure("no retry allowed", block_name, failed_phase, 1)
    /\ pc' = "raised"
    /\ system_logs' = LogWorkflowFailed(system_logs, error')
    /\ UNCHANGED <<workflow, template_tasks, workflow_tasks, max_retries, results,
                   retry_trackers, workflow_blocks, block_idx, phase_idx,
                   block_success, failed_phase, project_files, artifacts, in_flight>>

\* faulty variant: the replay resumes at the phase that failed
RetryBlock_ResumeAtFailed ==
    /\ AttemptOver
    /\ ~block_success
    /\ ~IsNoRetryBlock(block_name)
    /\ retry_count + 1 < EffectiveMaxRetries(block_name)
    /\ retry_count' = retry_count + 1
    /\ results' = [p \in DOMAIN results \ {failed_phase} |-> results[p]]
    /\ phase_idx' = phase_idx
    /\ block_success' = TRUE
    /\ failed_phase' = None
    /\ UNCHANGED <<workflow, template_tasks, workflow_tasks, max_retries,
                   retry_trackers, workflow_blocks, block_idx, error, project_files,
                   artifacts, system_logs, in_flight, pc>>

\* lines 440, 444-454 and the loop head 402-404: clear the block and replay
RetryBlock ==
    /\ AttemptOver
    /\ ~block_success
    /\ ~IsNoRetryBlock(block_name)
    /\ retry_count + 1 < EffectiveMaxRetries(block_name)
    /\ retry_count' = retry_count + 1
    /\ results' = ClearBlockResults(results, block_phases)
    /\ phase_idx' = 1
    /\ block_success' = TRUE
    /\ failed_phase' = None
    /\ UNCHANGED <<workflow, template_tasks, workflow_tasks, max_retries,
                   retry_trackers, workflow_blocks, block_idx, error, project_files,
                   artifacts, system_logs, in_flight, pc>>

\* faulty variant: once the attempts are used up the executor gives up on
\* the block and returns instead of raising
BlockExhausted_Returns ==
    /\ AttemptOver
    /\ ~block_success
    /\ ~IsNoRetryBlock(block_name)
    /\ ~(retry_count + 1 < EffectiveMaxRetries(block_name))
    /\ retry_count' = retry_count + 1
    /\ pc' = "returned"
    /\ system_logs' = LogWorkflowCompleted(system_logs)
    /\ UNCHANGED <<workflow, template_tasks, workflow_tasks, max_retries, results,
                   retry_trackers, workflow_blocks, block_idx, phase_idx, error,
                   block_success, failed_phase, project_files, artifacts, in_flight>>

\* lines 440, 455-456: attempts exhausted
BlockExhausted ==
    /\ AttemptOver
    /\ ~block_success
    /\ ~IsNoRetryBlock(block_name)
    /\ ~(retry_count + 1 < EffectiveMaxRetries(block_name))
    /\ retry_count' = retry_count + 1
    /\ error' = BlockFailure("attempts exhausted", block_name, failed_phase,
                             EffectiveMaxRetries(block_name))
    /\ pc' = "raised"
    /\ system_logs' = LogWorkflowFailed(system_logs, error')
    /\ UNCHANGED <<workflow, template_tasks, workflow_tasks, max_retries, results,
                   retry_trackers, workflow_blocks, block_idx, phase_idx,
                   block_success, failed_phase, project_files, artifacts, in_flight>>

Next ==
    \/ ExecuteWorkflow
    \/ SkipPhase
    \/ ExecutePhase
    \/ NoTaskForPhase
    \/ BlockCompleted
    \/ NoRetryAbort
    \/ RetryBlock
    \/ BlockExhausted

Spec == Init /\ [][Next]_vars


\* ------------------------------------------------------------------- claims
\* the execution_log of a result produced in the attempt now in progress
CurrentAttempt == [block |-> block_name, attempt |-> retry_count + 1]

\* names of the blocks up to and including the current one
BlocksSoFar == {workflow_blocks[i].name : i \in 1..block_idx}

\* a failed attempt of a retryable block with attempts left
FailedWithAttemptsLeft ==
    /\ pc = "running"
    /\ ~block_success
    /\ block_name # planning_no_retry
    /\ retry_count + 1 < max_block_retries

\* C1: when a phase fails inside a retryable block and attempts remain, the
\* next step deletes the result of every phase of the block and the replay
\* starts at the block's first phase, in the same block.
C1_ClearAndRestart ==
    [][FailedWithAttemptsLeft =>
          /\ \A p \in Range(block_phases) : p \notin DOMAIN results'
          /\ phase_idx' = 1
          /\ block_idx' = block_idx
          /\ retry_count' = retry_count + 1
          /\ block_success'
          /\ pc' = "running"]_vars

\* a second phase failed after the first phase of the block had stored a result
C1_Witness ==
    /\ FailedWithAttemptsLeft
    /\ Len(block_phases) = 2
    /\ failed_phase = block_phases[2]
    /\ block_phases[1] \in DOMAIN results
    /\ retry_count >= 1

\* C2: a failed attempt of the no-retry block is followed at once by the
\* raise, after exactly one attempt; nothing runs after the raise, and every
\* stored result was produced by that block (none by a later block).
C2_NoRetryAbort ==
    [][/\ (pc = "running" /\ ~block_success /\ block_name = planning_no_retry) =>
              /\ pc' = "raised"
              /\ retry_count' = 1
              /\ error'.block = planning_no_retry
              /\ error'.phase = failed_phase
              /\ \A p \in DOMAIN results' :
                    /\ p \in Range(block_phases)
                    /\ results'[p].execution_log = [block |-> planning_no_retry, attempt |-> 1]
       /\ (pc = "raised" => FALSE)]_vars

\* the no-retry block has raised while a later block was still to run
C2_Witness ==
    /\ pc = "raised"
    /\ block_name = planning_no_retry
    /\ retry_count = 1
    /\ Len(workflow_blocks) > block_idx

\* the ceiling C3 states: 1 for a no-retry block, else the configured max_retries
ConfiguredCeiling == IF block_name = planning_no_retry THEN 1 ELSE max_retries

\* C3 (as claimed): the number of attempts of a block never exceeds 1 for a
\* no-retry block and the caller-configured max_retries for any other block.
C3_Claim ==
    /\ pc = "running" => retry_count + 1 <= ConfiguredCeiling
    /\ pc = "raised" => retry_count <= ConfiguredCeiling

\* C4: when a retryable block fails on its last allowed attempt the raised
\* error names that block and the phase that failed in that attempt, and no
\* result was produced by a later block.
C4_ExhaustedError ==
    (pc = "raised" /\ block_name # planning_no_retry) =>
        /\ retry_count = max_block_retries
        /\ error.block = block_name
        /\ error.phase \in Range(block_phases)
        /\ \/ FindTaskForPhase(workflow_tasks, error.phase) = None
           \/ /\ error.phase \in DOMAIN results
              /\ ~results[error.phase].success
              /\ results[error.phase].execution_log =
                     [block |-> block_name, attempt |-> max_block_retries]
        /\ \A p \in DOMAIN results : results[p].execution_log.block \in BlocksSoFar

\* a retryable block exhausted its attempts at its second phase
C4_Witness ==
    /\ pc = "raised"
    /\ error.kind = "attempts exhausted"
    /\ Len(block_phases) = 2
    /\ error.phase = block_phases[2]
    /\ error.phase \in DOMAIN results
    /\ ~results[error.phase].success

\* the current block has just succeeded (loop left by `break` on success)
BlockJustSucceeded ==
    \/ pc = "running" /\ block_success /\ phase_idx > Len(block_phases)
    \/ pc = "returned"

\* C5: when a block succeeds after one or more failed attempts, every phase
\* of it that declares no dependency holds a successful result, and that
\* result is the one produced in the final attempt (the earlier one was
\* deleted and the phase executed again).
C5_ReplayReplaces ==
    (BlockJustSucceeded /\ retry_count >= 1) =>
        \A p \in Range(block_phases) :
            (GetPhaseInfo(workflow, p).dependencies = <<>>
             /\ FindTaskForPhase(workflow_tasks, p) # None) =>
                /\ p \in DOMAIN results
                /\ results[p].success
                /\ results[p].execution_log = CurrentAttempt

\* [development, testing] returned after exactly one failed attempt
C5_Witness ==
    /\ pc = "returned"
    /\ retry_count = 1
    /\ block_phases = <<ph_development, ph_testing>>
    /\ results[ph_development].success
    /\ results[ph_testing].success
    /\ results[ph_development].execution_log.attempt = 2

\* C6 (as claimed): after a block was retried once and then succeeded, the
\* retry history of some phase of the block shows exactly one entry.
C6_Claim ==
    (pc = "returned" /\ retry_count = 1) =>
        \E p \in Range(block_phases) : Len(retry_trackers[p].retry_history) = 1

\* C7 (as claimed): a block succeeds only when every one of its phases has a
\* successful result in the result map.
C7_Claim ==
    (pc = "running" /\ block_success /\ phase_idx > Len(block_phases)) =>
        \A p \in Range(block_phases) : p \in DOMAIN results /\ results[p].success

\* dependencies of the phase at hand are all stored with success
DependenciesMet ==
    \A d \in Range(GetPhaseInfo(workflow, phase_name).dependencies) :
        d \in DOMAIN results /\ results[d].success

\* C7 (amended): a phase the dependency gate skips leaves the result map and
\* the attempt's success flag alone; a phase that passes the gate keeps the
\* attempt successful exactly when it stores a successful result of this
\* attempt (a missing task or an unsuccessful result fails the attempt); and
\* the executor leaves a block as succeeded only if no phase failed, every
\* result of the final attempt being successful.
C7_Amended ==
    [][/\ (InPhaseLoop /\ ~DependenciesMet) =>
              /\ block_success'
              /\ results' = results
              /\ phase_idx' = phase_idx + 1
       /\ (InPhaseLoop /\ DependenciesMet) =>
              (block_success' <=>
                  /\ phase_name \in DOMAIN results'
                  /\ results'[phase_name].success
                  /\ results'[phase_name].execution_log = CurrentAttempt)
       /\ (pc = "running" /\ (block_idx' # block_idx \/ pc' = "returned")) =>
              /\ block_success
              /\ \A p \in Range(block_phases) :
                    (p \in DOMAIN results /\ results[p].execution_log = CurrentAttempt)
                        => results[p].success]_vars

\* a block attempt ended successfully although one of its phases has no result
C7_Witness ==
    /\ pc = "running"
    /\ block_success
    /\ phase_idx > Len(block_phases)
    /\ \E p \in Range(block_phases) : p \notin DOMAIN results

\* names of the blocks that have already succeeded
SucceededBlocks == {workflow_blocks[i].name : i \in 1..(block_idx - 1)}

\* C8 (as claimed): neither the clear step of a retry nor any step of a
\* replayed attempt deletes or overwrites a result that an already-succeeded
\* block produced.
C8_Claim ==
    [][(pc = "running" /\ (retry_count >= 1 \/ retry_count' > retry_count)) =>
          \A p \in DOMAIN results :
              results[p].execution_log.block \in SucceededBlocks =>
                  p \in DOMAIN results' /\ results'[p] = results[p]]_vars

\* C9 (as claimed): the blocks partition the phase set: every phase is in
\* exactly one block and the blocks together hold exactly the declared phases.
C9_Claim ==
    pc # "idle" =>
        /\ \A p \in Range(AllPhases(workflow)) :
              Cardinality({i \in 1..Len(workflow_blocks) :
                              p \in Range(workflow_blocks[i].phases)}) = 1
        /\ UNION {Range(workflow_blocks[i].phases) : i \in 1..Len(workflow_blocks)}
              = Range(AllPhases(workflow))

\* the block C10 assigns to a phase name: first matching category wins
FirstMatchBlock(p) ==
    IF AnyKeyword(PlanningKeywords, p) THEN planning_no_retry
    ELSE IF AnyKeyword(DesignKeywords, p) THEN design
    ELSE IF AnyKeyword(DevTestKeywords, p) THEN development_testing
    ELSE IF AnyKeyword(SecurityKeywords, p) THEN security
    ELSE misc

\* C10 (as claimed): each phase is placed in the block of the first keyword
\* category it matches (misc when none), and in no other block.
C10_Claim ==
    pc # "idle" =>
        \A p \in Range(AllPhases(workflow)) :
            \A i \in 1..Len(workflow_blocks) :
                p \in Range(workflow_blocks[i].phases)
                    <=> workflow_blocks[i].name = FirstMatchBlock(p)

\* ------------------------------------------------- planner specification
\* longest workflow the planner inputs are drawn from
MaxPlanPhases == 3

ph_security == kw_security
ph_release  == <<"r","e","l","e","a","s","e">>

\* phase_info entries of the planner inputs: every keyword category, a name
\* of two categories (UI_test) and two names of no category
PlanCatalog ==
    << [phase |-> ph_planning,    agent |-> pm],
       [phase |-> ph_ui_design,   agent |-> ui_designer],
       [phase |-> ph_development, agent |-> python_developer],
       [phase |-> ph_testing,     agent |-> tester],
       [phase |-> ph_UI_test,     agent |-> tester],
       [phase |-> ph_security,    agent |-> security_engineer],
       [phase |-> ph_deploy,      agent |-> python_developer],
       [phase |-> ph_release,     agent |-> python_developer] >>

\* up to MaxPlanPhases distinct catalog phases in every declaration order,
\* no phase declaring a dependency
PlanWorkflows ==
    UNION { { [i \in 1..n |-> [phase        |-> PlanCatalog[f[i]].phase,
                               agent        |-> PlanCatalog[f[i]].agent,
                               dependencies |-> <<>>]]
              : f \in {g \in [1..n -> 1..Len(PlanCatalog)] :
                          \A i, j \in 1..n : g[i] = g[j] => i = j} }
            : n \in 1..MaxPlanPhases }

\* state after __init__ for a planner input, every phase having its task
InitPlan ==
    /\ workflow \in PlanWorkflows
    /\ template_tasks = [p \in Range(AllPhases(workflow)) |-> TaskInfo(<<>>)]
    /\ workflow_tasks = CreateAgentTasks(workflow, template_tasks)
    /\ max_retries = 3
    /\ results = <<>>
    /\ retry_trackers = <<>>
    /\ workflow_blocks = <<>>
    /\ block_idx = 0
    /\ retry_count = 0
    /\ phase_idx = 0
    /\ block_success = TRUE
    /\ failed_phase = None
    /\ error = None
    /\ project_files = {}
    /\ system_logs = InitialSystemLogs
    /\ in_flight = {}
    /\ artifacts = None
    /\ pc = "idle"

\* the run up to the point where the blocks are planned
NextPlan == ExecuteWorkflow

SpecPlan == InitPlan /\ [][NextPlan]_vars

\* the order in which the claim says blocks are emitted
BlockOrder == <<planning_no_retry, design, development_testing, security, misc>>

BlockRank(name) == CHOOSE r \in 1..Len(BlockOrder) : BlockOrder[r] = name

\* some declared phase belongs to the category of the r-th block name
CategoryInhabited(r) ==
    \E p \in Range(AllPhases(workflow)) :
        CASE r = 1 -> AnyKeyword(PlanningKeywords, p)
          [] r = 2 -> AnyKeyword(DesignKeywords, p)
          [] r = 3 -> AnyKeyword(DevTestKeywords, p)
          [] r = 4 -> AnyKeyword(SecurityKeywords, p)
          [] r = 5 -> ~AnyKeyword(PlanningKeywords \cup DesignKeywords
                                  \cup DevTestKeywords \cup SecurityKeywords, p)

\* C11: whatever the order of the phases in the declaration, the planned
\* blocks appear in the order planning_no_retry, design, development_testing,
\* security, misc; no emitted block is empty and a block is left out exactly
\* when its category has no phase; execution starts at the first of them.
C11_FixedBlockOrder ==
    pc # "idle" =>
        /\ \A i \in 1..Len(workflow_blocks) :
              /\ workflow_blocks[i].name \in Range(BlockOrder)
              /\ workflow_blocks[i].phases # <<>>
        /\ \A i, j \in 1..Len(workflow_blocks) :
              i < j => BlockRank(workflow_blocks[i].name) < BlockRank(workflow_blocks[j].name)
        /\ \A r \in 1..Len(BlockOrder) :
              CategoryInhabited(r) <=>
                  \E i \in 1..Len(workflow_blocks) : workflow_blocks[i].name = BlockOrder[r]
        /\ block_idx = 1

\* a declaration in the reverse of the block order: misc phase first,
\* security phase second, planning phase last
C11_Witness ==
    /\ pc = "running"
    /\ AllPhases(workflow) = <<ph_deploy, ph_security, ph_planning>>
    /\ Len(workflow_blocks) = 3
    /\ workflow_blocks[1].phases = <<ph_planning>>
    /\ workflow_blocks[3].phases = <<ph_deploy>>

\* ------------------------------ planning / development / testing workflows
\* the three phases of the example workflow
TrioCatalog ==
    << [phase |-> ph_planning,    agent |-> pm],
       [phase |-> ph_development, agent |-> python_developer],
       [phase |-> ph_testing,     agent |-> tester] >>

\* dependency lists over the phase names S: none, one name, or two names
DependencyLists(S) ==
    {<<>>} \cup {<<a>> : a \in S} \cup {<<ab[1], ab[2]>> : ab \in {x \in S \X S : x[1] # x[2]}}

\* the three phases in every declaration order; at most one of them (the
\* who-th declared) declares dependencies, on the other two phases
TrioWorkflows ==
    UNION { { [i \in 1..3 |-> [phase        |-> TrioCatalog[f[i]].phase,
                               agent        |-> TrioCatalog[f[i]].agent,
                               dependencies |-> IF i = who THEN deps ELSE <<>>]]
              : deps \in DependencyLists({TrioCatalog[f[j]].phase : j \in (1..3) \ {who}}) }
            : f \in Orderings(1..3), who \in 1..3 }

\* state after __init__ for one of these workflows
InitTrio ==
    /\ workflow \in TrioWorkflows
    /\ template_tasks \in TaskCatalogs(workflow)
    /\ workflow_tasks = CreateAgentTasks(workflow, template_tasks)
    /\ max_retries = 5
    /\ results = <<>>
    /\ retry_trackers = <<>>
    /\ workflow_blocks = <<>>
    /\ block_idx = 0
    /\ retry_count = 0
    /\ phase_idx = 0
    /\ block_success = TRUE
    /\ failed_phase = None
    /\ error = None
    /\ project_files = {}
    /\ system_logs = InitialSystemLogs
    /\ in_flight = {}
    /\ artifacts = None
    /\ pc = "idle"

SpecTrio == InitTrio /\ [][Next]_vars

\* the no-retry flag the executor computes for the i-th planned block
NoRetryFlag(blocks, i) == EffectiveMaxRetries(blocks[i].name) = 1

\* C12: with planning, development and testing declared the planner yields
\* at least two blocks, the block holding planning is no-retry and one
\* retryable block holds both development and testing; a block is no-retry
\* exactly when its name contains "no_retry"; and no step of the run changes
\* the planned blocks, hence the flag of any block.
C12_NoRetryFlag ==
    /\ [](pc # "idle" =>
            /\ Len(workflow_blocks) >= 2
            /\ \A i \in 1..Len(workflow_blocks) :
                  /\ ph_planning \in Range(workflow_blocks[i].phases)
                        => NoRetryFlag(workflow_blocks, i)
                  /\ NoRetryFlag(workflow_blocks, i)
                        <=> Contains(kw_no_retry, workflow_blocks[i].name)
            /\ \E i \in 1..Len(workflow_blocks) :
                  /\ ~NoRetryFlag(workflow_blocks, i)
                  /\ {ph_development, ph_testing} \subseteq Range(workflow_blocks[i].phases))
    /\ [][pc # "idle" =>
            /\ Len(workflow_blocks') = Len(workflow_blocks)
            /\ \A i \in 1..Len(workflow_blocks) :
                  /\ workflow_blocks'[i].name = workflow_blocks[i].name
                  /\ NoRetryFlag(workflow_blocks', i) <=> NoRetryFlag(workflow_blocks, i)]_vars

\* planning was declared last, its block ran first and succeeded, and the
\* development/testing block is being replayed
C12_Witness ==
    /\ pc = "running"
    /\ workflow[3].phase = ph_planning
    /\ workflow_blocks[1].phases = <<ph_planning>>
    /\ block_idx = 2
    /\ {ph_development, ph_testing} \subseteq Range(block_phases)
    /\ retry_count >= 1

\* C13: for every declared dependency list the gate answers true exactly
\* when each named dependency has an entry in the result map whose success
\* flag is true, so it answers true for an empty list whatever the map
\* holds; and the step that evaluates the gate for a phase leaves the
\* entries of all other phases, its dependencies included, as they were.
C13_DependencyGate ==
    /\ [](\A i \in 1..Len(workflow) :
            /\ CheckDependencies(results, workflow[i].dependencies)
                  <=> \A dep \in Range(workflow[i].dependencies) :
                          dep \in DOMAIN results /\ results[dep].success
            /\ workflow[i].dependencies = <<>>
                  => CheckDependencies(results, workflow[i].dependencies))
    /\ [][InPhaseLoop =>
            /\ \A p \in (DOMAIN results \cup DOMAIN results') \ {phase_name} :
                  p \in DOMAIN results /\ p \in DOMAIN results' /\ results'[p] = results[p]
            /\ ~CheckDependencies(results, dependencies) => results' = results]_vars

\* a phase declares two dependencies, one stored with success and one stored
\* without: the gate is closed by the success flag alone
C13_Witness ==
    \E i \in 1..Len(workflow) :
        /\ Len(workflow[i].dependencies) = 2
        /\ \A dep \in Range(workflow[i].dependencies) : dep \in DOMAIN results
        /\ \E dep \in Range(workflow[i].dependencies) : results[dep].success
        /\ \E dep \in Range(workflow[i].dependencies) : ~results[dep].success
        /\ ~CheckDependencies(results, workflow[i].dependencies)

\* ------------------------------------------ environment specification
\* files of the project directory that tasks declare as context
file_app    == "app.py"
file_readme == "README.md"
EnvFiles    == {file_app, file_readme}

ph_Smoke_Test == <<"S","m","o","k","e","_","T","e","s","t">>

\* planning or development followed by a test phase (lower-case or
\* capitalised name); at most one of the two phases depends on the other
EnvWorkflows ==
    { [i \in 1..2 |->
          [phase        |-> IF i = 1 THEN first.phase ELSE t,
           agent        |-> IF i = 1 THEN first.agent ELSE tester,
           dependencies |-> IF d[1] = i
                            THEN <<IF d[2] = 1 THEN first.phase ELSE t>>
                            ELSE <<>>]]
      : first \in {[phase |-> ph_development, agent |-> python_developer],
                   [phase |-> ph_planning, agent |-> pm]},
        t \in {ph_testing, ph_Smoke_Test}, d \in DependencyChoices(2) }

\* the context files the test phase declares
ContextDeclarations == {<<file_app>>, <<file_readme, file_app>>}

\* task catalogs: at most one phase lacks its entry; the test phase declares
\* context files, the first phase declares none
EnvTaskCatalogs(wf) ==
    {[p \in ps |-> TaskInfo(IF p = wf[2].phase THEN decl ELSE <<>>)] :
        ps \in {Range(AllPhases(wf))}
               \cup {Range(AllPhases(wf)) \ {p} : p \in Range(AllPhases(wf))},
        decl \in ContextDeclarations}

\* state after __init__, the project directory empty or holding README.md
InitEnv ==
    /\ workflow \in EnvWorkflows
    /\ template_tasks \in EnvTaskCatalogs(workflow)
    /\ workflow_tasks = CreateAgentTasks(workflow, template_tasks)
    /\ max_retries = 5
    /\ results = <<>>
    /\ retry_trackers = <<>>
    /\ workflow_blocks = <<>>
    /\ block_idx = 0
    /\ retry_count = 0
    /\ phase_idx = 0
    /\ block_success = TRUE
    /\ failed_phase = None
    /\ error = None
    /\ project_files \in {{}, {file_readme}}
    /\ system_logs = InitialSystemLogs
    /\ in_flight = {}
    /\ artifacts = None
    /\ pc = "idle"

\* a file appears in the project directory while the workflow runs (written
\* by the external capability or by anyone else)
FileCreated ==
    /\ pc = "running"
    /\ \E f \in EnvFiles \ project_files : project_files' = project_files \cup {f}
    /\ UNCHANGED <<workflow, template_tasks, workflow_tasks, max_retries, results,
                   retry_trackers, workflow_blocks, block_idx, retry_count, phase_idx,
                   block_success, failed_phase, error, system_logs, in_flight, pc,
                   artifacts>>

NextEnv ==
    \/ ExecuteWorkflow
    \/ SkipPhase
    \/ ExecutePhase
    \/ ExecutePhaseFurther
    \/ NoTaskForPhase
    \/ BlockCompleted
    \/ NoRetryAbort
    \/ RetryBlock
    \/ BlockExhausted
    \/ FileCreated

SpecEnv == InitEnv /\ [][NextEnv]_vars

\* the phase has just been executed by this step
PhaseExecuted == InPhaseLoop /\ results' # results

\* the stored result stems from an external call that timed out or raised:
\* its output is the text substituted for the missing answer
TimedOutOrRaised(result) ==
    \E i \in 1..Len(workflow_tasks) :
        /\ workflow_tasks[i].task_id = result.task_id
        /\ result.output = FallbackResponse(workflow_tasks[i].role, result.task_id)

\* C14 (as claimed): when the external call of a phase times out or raises,
\* the stored result has success false and an error text, and the block
\* attempt is counted as failed at that phase.
C14_Claim ==
    [][(PhaseExecuted /\ TimedOutOrRaised(results'[phase_name])) =>
          /\ ~results'[phase_name].success
          /\ results'[phase_name].errors # None
          /\ ~block_success'
          /\ failed_phase' = phase_name]_vars

\* C15 (as claimed): a phase that passes the gate and has no task is passed
\* over: the attempt stays successful and the executor moves to the next
\* phase, so that no retry and no abort is due to that phase.
C15_Claim ==
    [][(InPhaseLoop /\ GateOpen /\ FindTaskForPhase(workflow_tasks, phase_name) = None) =>
          /\ block_success'
          /\ phase_idx' = phase_idx + 1
          /\ pc' = "running"]_vars

\* C18: every stored result of a phase whose name contains "test" in any
\* letter case and whose output contains the substring "error" carries
\* requires_retry = true.
C18_TestErrorFlagged ==
    \A p \in DOMAIN results :
        (Contains(kw_test, Lower(p)) /\ Contains(out_error, results[p].output))
            => results[p].requires_retry

\* the phase Smoke_Test answered "error": the result is successful and flagged
C18_Witness ==
    /\ ph_Smoke_Test \in DOMAIN results
    /\ results[ph_Smoke_Test].success
    /\ results[ph_Smoke_Test].output = out_error
    /\ results[ph_Smoke_Test].requires_retry

\* C19: a result with success true and requires_retry true keeps the block
\* attempt successful and lets the executor move on to the next phase of the
\* same attempt; the attempt is marked failed only at a phase that has no
\* task or whose result is unsuccessful.
C19_FlagIsAdvisory ==
    [][/\ (PhaseExecuted /\ results'[phase_name].success
                         /\ results'[phase_name].requires_retry) =>
              /\ block_success'
              /\ phase_idx' = phase_idx + 1
              /\ block_idx' = block_idx
              /\ retry_count' = retry_count
              /\ pc' = "running"
       /\ (InPhaseLoop /\ ~block_success') =>
              \/ FindTaskForPhase(workflow_tasks, phase_name) = None
              \/ /\ phase_name \in DOMAIN results'
                 /\ ~results'[phase_name].success]_vars

\* the workflow returned although a stored successful result is flagged
C19_Witness ==
    /\ pc = "returned"
    /\ \E p \in DOMAIN results : results[p].success /\ results[p].requires_retry

\* C20 (as claimed): at every execution of a phase, replays included, the
\* task's context-file list is the declared list of its task entry
\* restricted to the files that exist at that moment.
C20_Claim ==
    [][PhaseExecuted =>
          FindTaskForPhase(workflow_tasks', phase_name).context_files
              = GetAvailableContextFiles(template_tasks[phase_name].context_files,
                                         project_files)]_vars

\* ------------------------------------------------ tracker specification
\* most calls of add_retry_attempt made on one tracker
MaxAddCalls == 4

\* ceilings a tracker is constructed with: 0 up to the orchestrator's value
TrackerCeilings == 0..max_cross_phase_retries

\* arguments of add_retry_attempt
TriggerPhases == {ph_testing, ph_UI_test}
RetryReasons  == {"bugs identified", "errors found in testing"}

\* a fresh PhaseRetryTracker(phase_name="development", max_retries=m) held in
\* the tracker map of an orchestrator that has not started a workflow
InitTracker ==
    /\ \E m \in TrackerCeilings :
          retry_trackers = [p \in {ph_development} |->
                               [PhaseRetryTracker(p) EXCEPT !.max_retries = m]]
    /\ workflow = <<[phase |-> ph_development, agent |-> python_developer,
                     dependencies |-> <<>>]>>
    /\ template_tasks = [p \in {ph_development} |-> TaskInfo(<<>>)]
    /\ workflow_tasks = CreateAgentTasks(workflow, template_tasks)
    /\ max_retries = 3
    /\ results = <<>>
    /\ workflow_blocks = <<>>
    /\ block_idx = 0
    /\ retry_count = 0
    /\ phase_idx = 0
    /\ block_success = TRUE
    /\ failed_phase = None
    /\ error = None
    /\ project_files = {}
    /\ system_logs = InitialSystemLogs
    /\ in_flight = {}
    /\ artifacts = None
    /\ pc = "idle"

\* one call tracker.add_retry_attempt(triggered_by, reason)
AddRetryAttemptCall ==
    /\ \E p \in DOMAIN retry_trackers, triggered_by \in TriggerPhases, reason \in RetryReasons :
          /\ retry_trackers[p].retry_count < MaxAddCalls
          /\ retry_trackers' =
                 [retry_trackers EXCEPT ![p] = AddRetryAttempt(@, triggered_by, reason)]
    /\ UNCHANGED <<workflow, template_tasks, workflow_tasks, max_retries, results,
                   workflow_blocks, block_idx, retry_count, phase_idx, block_success,
                   failed_phase, error, project_files, artifacts, system_logs,
                   in_flight, pc>>

NextTracker == AddRetryAttemptCall

SpecTracker == InitTracker /\ [][NextTracker]_vars

\* C16: in every tracker state can_retry() is true exactly when retry_count
\* is below max_retries; once max_retries calls of add_retry_attempt have
\* been made on a fresh tracker it is false, and further calls keep it false.
C16_CanRetry ==
    /\ [](\A p \in DOMAIN retry_trackers :
            /\ CanRetry(retry_trackers[p])
                  <=> retry_trackers[p].retry_count < retry_trackers[p].max_retries
            /\ Len(retry_trackers[p].retry_history) >= retry_trackers[p].max_retries
                  => ~CanRetry(retry_trackers[p]))
    /\ [][\A p \in DOMAIN retry_trackers :
            ~CanRetry(retry_trackers[p]) => ~CanRetry(retry_trackers'[p])]_vars

\* a tracker with ceiling 3 on which exactly 3 calls were made
C16_Witness ==
    /\ retry_trackers[ph_development].max_retries = 3
    /\ Len(retry_trackers[ph_development].retry_history) = 3
    /\ ~CanRetry(retry_trackers[ph_development])

\* C17: every call of add_retry_attempt, also at or past the ceiling, raises
\* retry_count by one, appends one history entry numbered with the new
\* retry_count and carrying the arguments, and sets the last trigger and
\* reason to them; earlier entries are kept, and the history is always as
\* long as retry_count.
C17_AddRetryAttempt ==
    /\ [](\A p \in DOMAIN retry_trackers :
            Len(retry_trackers[p].retry_history) = retry_trackers[p].retry_count)
    /\ [][\A p \in DOMAIN retry_trackers :
            LET old == retry_trackers[p]
                new == retry_trackers'[p]
            IN  new # old =>
                  /\ new.retry_count = old.retry_count + 1
                  /\ Len(new.retry_history) = Len(old.retry_history) + 1
                  /\ SubSeq(new.retry_history, 1, Len(old.retry_history)) = old.retry_history
                  /\ new.retry_history[Len(new.retry_history)].attempt = new.retry_count
                  /\ new.retry_history[Len(new.retry_history)].triggered_by = new.triggered_by
                  /\ new.retry_history[Len(new.retry_history)].reason = new.retry_reason
                  /\ new.triggered_by \in TriggerPhases
                  /\ new.retry_reason \in RetryReasons
                  /\ new.max_retries = old.max_retries
                  /\ new.phase_name = old.phase_name]_vars

\* a call was recorded past the ceiling: the counter exceeds max_retries
C17_Witness ==
    /\ retry_trackers[ph_development].max_retries = 1
    /\ retry_trackers[ph_development].retry_count = 3
    /\ retry_trackers[ph_development].retry_history[3].attempt = 3
    /\ retry_trackers[ph_development].triggered_by = ph_UI_test

\* ------------------------------------------------------ block retries, log
\* a step that starts the next attempt of the same block (lines 441-453)
BlockRetried ==
    /\ pc = "running" /\ pc' = "running"
    /\ block_idx' = block_idx
    /\ retry_count' = retry_count + 1

\* the event names the block, the failing phase and carries a reason
NamesRetry(event, block, phase) ==
    \E i, j \in 1..Len(event.message) :
        /\ event.message[i] = block
        /\ event.message[j] = phase

\* C23: every block retry appends an entry to the system log of the log
\* manager, and the entry names the block that is replayed and the phase
\* that failed.
C23_Claim ==
    [][BlockRetried =>
          /\ Len(system_logs') = Len(system_logs) + 1
          /\ NamesRetry(system_logs'[Len(system_logs')], block_name, failed_phase)]_vars

\* ------------------------------------------------- the awaited phase call
\* The block loop awaits each phase (result = await self._execute_phase(...),
\* which awaits agent.execute_task): the call is split here into its start
\* and its return, and in_flight holds the phases between the two.

\* two declared phases, the second one testing; each carries the template's
\* parallel flag, which no line of the orchestrator reads
AsyncWorkflows ==
    { << [phase |-> first.phase, agent |-> first.agent,
          dependencies |-> IF d[1] = 1 THEN <<ph_testing>> ELSE <<>>,
          parallel |-> par[1]],
         [phase |-> ph_testing, agent |-> tester,
          dependencies |-> IF d[1] = 2 THEN <<first.phase>> ELSE <<>>,
          parallel |-> par[2]] >>
      : first \in {[phase |-> ph_planning, agent |-> pm],
                   [phase |-> ph_development, agent |-> python_developer]},
        d \in DependencyChoices(2),
        par \in BOOLEAN \X BOOLEAN }

\* state after __init__ for one of these workflows
InitAsync ==
    /\ workflow \in AsyncWorkflows
    /\ template_tasks \in TaskCatalogs(workflow)
    /\ workflow_tasks = CreateAgentTasks(workflow, template_tasks)
    /\ max_retries = 5
    /\ results = <<>>
    /\ retry_trackers = <<>>
    /\ workflow_blocks = <<>>
    /\ block_idx = 0
    /\ retry_count = 0
    /\ phase_idx = 0
    /\ block_success = TRUE
    /\ failed_phase = None
    /\ error = None
    /\ project_files = {}
    /\ system_logs = InitialSystemLogs
    /\ in_flight = {}
    /\ artifacts = None
    /\ pc = "idle"

\* faulty variant: the phase is scheduled as a task and the loop goes on to
\* the next phase without awaiting it
StartPhase_NoAwait ==
    /\ InPhaseLoop
    /\ GateOpen
    /\ FindTaskForPhase(workflow_tasks, phase_name) # None
    /\ in_flight' = in_flight \cup {phase_name}
    /\ phase_idx' = phase_idx + 1
    /\ UNCHANGED <<workflow, template_tasks, workflow_tasks, max_retries, results,
                   retry_trackers, workflow_blocks, block_idx, retry_count,
                   block_success, failed_phase, error, project_files, artifacts,
                   system_logs, pc>>

\* lines 420-422: the loop calls _execute_phase and is suspended at the await
StartPhase ==
    /\ InPhaseLoop
    /\ GateOpen
    /\ FindTaskForPhase(workflow_tasks, phase_name) # None
    /\ in_flight' = in_flight \cup {phase_name}
    /\ pc' = "executing"
    /\ UNCHANGED <<workflow, template_tasks, workflow_tasks, max_retries, results,
                   retry_trackers, workflow_blocks, block_idx, retry_count, phase_idx,
                   block_success, failed_phase, error, project_files, artifacts,
                   system_logs>>

\* lines 422-429: the awaited call returns; the result is stored, evaluated
\* and tested by the loop, which is running again
FinishPhase ==
    /\ pc = "executing"
    /\ \E event \in ExecutionEvents(FindTaskForPhase(workflow_tasks, phase_name).role)
                    \cup FurtherEvents(FindTaskForPhase(workflow_tasks, phase_name).role),
          valid \in BOOLEAN : RunPhase(event, valid)
    /\ in_flight' = in_flight \ {phase_name}
    /\ pc' = "running"

NextAsync ==
    \/ ExecuteWorkflow
    \/ SkipPhase
    \/ StartPhase
    \/ FinishPhase
    \/ NoTaskForPhase
    \/ BlockCompleted
    \/ NoRetryAbort
    \/ RetryBlock
    \/ BlockExhausted

SpecAsync == InitAsync /\ [][NextAsync]_vars

\* the phases of the current block that are flagged parallel-eligible
ParallelEligible ==
    {p \in Range(block_phases) : GetPhaseInfo(workflow, p).parallel}

\* C21: at most one phase execution is in flight in every state, and every
\* step that changes the result map either ends the one execution in flight
\* and writes the result of that phase, or happens while none is in flight;
\* in both cases no execution is in flight after the step.
C21_OneInFlight ==
    /\ [](Cardinality(in_flight) <= 1)
    /\ [][results' # results =>
             /\ in_flight' = {}
             /\ \A p \in in_flight :
                   \A q \in DOMAIN results' :
                       (q \notin DOMAIN results \/ results'[q] # results[q]) => q = p]_vars

\* a parallel-eligible phase is executing while another parallel-eligible
\* phase of the same block, without dependencies, has not been started
C21_Witness ==
    /\ pc = "executing"
    /\ in_flight = {phase_name}
    /\ phase_name \in ParallelEligible
    /\ \E q \in ParallelEligible \ {phase_name} :
          /\ q \notin DOMAIN results
          /\ GetPhaseInfo(workflow, q).dependencies = <<>>

\* ------------------------------------------------------ the partial map
\* the phases of block i that are executed whenever the block is attempted:
\* no dependency to wait for, and a compiled task
AlwaysExecuted(i) ==
    {p \in Range(workflow_blocks[i].phases) :
        /\ GetPhaseInfo(workflow, p).dependencies = <<>>
        /\ FindTaskForPhase(workflow_tasks, p) # None}

\* C22 (as claimed): the step at which execute_workflow aborts clears
\* nothing; the map then holds a successful result for every executed phase
\* of every block that succeeded before, and the unsuccessful result of the
\* failing phase when that phase has a task.
C22_Claim ==
    [][(pc = "running" /\ pc' = "raised") =>
          /\ results' = results
          /\ \A i \in 1..(block_idx - 1) :
                \A p \in AlwaysExecuted(i) :
                    p \in DOMAIN results' /\ results'[p].success
          /\ FindTaskForPhase(workflow_tasks, failed_phase) # None =>
                /\ failed_phase \in DOMAIN results'
                /\ ~results'[failed_phase].success]_vars

\* ------------------------------------------------ order inside the blocks
\* position of a phase in the declaration
DeclaredAt(p) == CHOOSE i \in 1..Len(AllPhases(workflow)) : AllPhases(workflow)[i] = p

\* C28 (as claimed): inside every planned block, misc included, the phases
\* stand in the relative order of the declaration.
C28_Claim ==
    pc # "idle" =>
        \A b \in 1..Len(workflow_blocks) :
            \A i, j \in 1..Len(workflow_blocks[b].phases) :
                i < j => DeclaredAt(workflow_blocks[b].phases[i])
                            < DeclaredAt(workflow_blocks[b].phases[j])

\* ------------------------------------------------- unsuccessful results
\* C30: every stored result with success = false is flagged requires_retry
\* and its retry reason is "Phase execution failed: " followed by the error
\* text the agent reported.
C30_FailureFlagged ==
    \A p \in DOMAIN results :
        ~results[p].success =>
            /\ results[p].requires_retry
            /\ Len(results[p].retry_reason) = 2
            /\ results[p].retry_reason[1] = "Phase execution failed: "
            /\ results[p].retry_reason[2] = results[p].errors

\* an unsuccessful result is stored next to a successful one
C30_Witness ==
    \E p, q \in DOMAIN results : ~results[p].success /\ results[q].success

\* ------------------------------------------------------- the success path
\* the workflows in which every dependency names a phase declared earlier
OrderedWorkflows ==
    {wf \in Workflows :
        \A i \in 1..Len(wf) :
            \A dep \in Range(wf[i].dependencies) :
                \E j \in 1..(i - 1) : wf[j].phase = dep}

\* state after __init__ for one of these workflows, every phase having its task
InitOrdered ==
    /\ workflow \in OrderedWorkflows
    /\ template_tasks = [p \in Range(AllPhases(workflow)) |-> TaskInfo(<<>>)]
    /\ workflow_tasks = CreateAgentTasks(workflow, template_tasks)
    /\ max_retries \in RetryCeilings
    /\ results = <<>>
    /\ retry_trackers = <<>>
    /\ workflow_blocks = <<>>
    /\ block_idx = 0
    /\ retry_count = 0
    /\ phase_idx = 0
    /\ block_success = TRUE
    /\ failed_phase = None
    /\ error = None
    /\ project_files = {}
    /\ system_logs = InitialSystemLogs
    /\ in_flight = {}
    /\ artifacts = None
    /\ pc = "idle"

\* lines 420-429 when the external call answers and no step of the agent raises
ExecutePhaseSucceeds ==
    /\ InPhaseLoop
    /\ GateOpen
    /\ FindTaskForPhase(workflow_tasks, phase_name) # None
    /\ \E text \in ResponseTexts(FindTaskForPhase(workflow_tasks, phase_name).role),
          valid \in BOOLEAN : RunPhase(SdkResponse(text), valid)
    /\ UNCHANGED <<in_flight, pc>>

\* the runs in which every external execution succeeds
NextOrdered ==
    \/ ExecuteWorkflow
    \/ SkipPhase
    \/ ExecutePhaseSucceeds
    \/ BlockCompleted

SpecOrdered == InitOrdered /\ [][NextOrdered]_vars

\* C27 (as claimed): when every dependency is declared earlier and every
\* external execution succeeds, execute_workflow returns with a successful
\* result for every declared phase.
C27_Claim ==
    pc = "returned" =>
        \A p \in Range(AllPhases(workflow)) :
            p \in DOMAIN results /\ results[p].success

\* ------------------------------------------------ cross-phase retry state
\* most _trigger_phase_retry calls in one behaviour
MaxTriggerCalls == 4

\* faulty variant: only start_phase itself is returned
GetPhasesFrom_OnlyStart(wf, start_phase) ==
    IF start_phase \in Range(AllPhases(wf)) THEN <<start_phase>> ELSE <<>>

\* _get_phases_from: the declared phases from start_phase on
GetPhasesFrom(wf, start_phase) ==
    LET all == AllPhases(wf)
        at  == {i \in 1..Len(all) : all[i] = start_phase}
    IN  IF at = {} THEN <<>>
        ELSE SubSeq(all, CHOOSE i \in at : \A j \in at : i <= j, Len(all))

\* the message of the event _trigger_phase_retry logs
TriggerMessage(retry_phase, attempt, triggered_by, reason) ==
    <<"Triggering retry of phase ", retry_phase, attempt, triggered_by, reason>>

\* RECURSIVE loop of get_retry_status over the items of retry_trackers, which
\* a dict keeps in insertion order, the order of the declaration
\* (the summary text of phase_details is left out)
RECURSIVE RetryStatusLoop(_, _, _)
RetryStatusLoop(phases, trackers, status) ==
    IF phases = <<>> THEN status
    ELSE RetryStatusLoop(Tail(phases), trackers,
             LET tracker == trackers[Head(phases)]
                 counted == IF tracker.retry_count > 0
                            THEN [status EXCEPT !.phases_with_retries = @ + 1,
                                                !.total_retry_attempts = @ + tracker.retry_count]
                            ELSE status
             IN  [counted EXCEPT !.phase_details =
                     [p \in DOMAIN @ \cup {Head(phases)} |->
                         IF p = Head(phases)
                         THEN [retry_count       |-> tracker.retry_count,
                               max_retries       |-> tracker.max_retries,
                               can_retry         |-> CanRetry(tracker),
                               last_triggered_by |-> tracker.triggered_by,
                               last_reason       |-> tracker.retry_reason]
                         ELSE @[p]]])

\* faulty variant: total_phases counts the trackers that have retries
GetRetryStatus_CountsRetried(wf, trackers) ==
    LET status == RetryStatusLoop(SelectSeq(AllPhases(wf), LAMBDA p : p \in DOMAIN trackers),
                                  trackers,
                                  [total_phases         |-> 0,
                                   phases_with_retries  |-> 0,
                                   total_retry_attempts |-> 0,
                                   phase_details        |-> <<>>])
    IN  [status EXCEPT !.total_phases = status.phases_with_retries]

\* get_retry_status
GetRetryStatus(wf, trackers) ==
    RetryStatusLoop(SelectSeq(AllPhases(wf), LAMBDA p : p \in DOMAIN trackers),
                    trackers,
                    [total_phases         |-> Cardinality(DOMAIN trackers),
                     phases_with_retries  |-> 0,
                     total_retry_attempts |-> 0,
                     phase_details        |-> <<>>])

\* planning or development followed by testing, no dependencies
CrossWorkflows ==
    { << [phase |-> first.phase, agent |-> first.agent, dependencies |-> <<>>],
         [phase |-> ph_testing, agent |-> tester, dependencies |-> <<>>] >>
      : first \in {[phase |-> ph_planning, agent |-> pm],
                   [phase |-> ph_development, agent |-> python_developer]} }

\* state after __init__ for one of these workflows, every phase having its task
InitCross ==
    /\ workflow \in CrossWorkflows
    /\ template_tasks = [p \in Range(AllPhases(workflow)) |-> TaskInfo(<<>>)]
    /\ workflow_tasks = CreateAgentTasks(workflow, template_tasks)
    /\ max_retries = 3
    /\ results = <<>>
    /\ retry_trackers = <<>>
    /\ workflow_blocks = <<>>
    /\ block_idx = 0
    /\ retry_count = 0
    /\ phase_idx = 0
    /\ block_success = TRUE
    /\ failed_phase = None
    /\ error = None
    /\ project_files = {}
    /\ system_logs = InitialSystemLogs
    /\ in_flight = {}
    /\ artifacts = None
    /\ pc = "idle"

\* number of _trigger_phase_retry calls made so far
TriggerCalls ==
    Cardinality({i \in 1..Len(system_logs) :
                    system_logs[i].message[1] = "Triggering retry of phase "})

\* _trigger_phase_retry(retry_phase, triggered_by, reason), called on an
\* orchestrator whose trackers exist, with the testing phase as trigger
TriggerPhaseRetry ==
    /\ pc # "idle"
    /\ TriggerCalls < MaxTriggerCalls
    /\ \E retry_phase \in DOMAIN retry_trackers, reason \in RetryReasons :
          /\ retry_trackers' = [retry_trackers EXCEPT
                                   ![retry_phase] = AddRetryAttempt(@, ph_testing, reason)]
          /\ results' = ClearBlockResults(results, GetPhasesFrom(workflow, retry_phase))
          /\ system_logs' = LogSystemEvent(system_logs, "info", "orchestrator",
                                TriggerMessage(retry_phase,
                                               retry_trackers'[retry_phase].retry_count,
                                               ph_testing, reason))
    /\ UNCHANGED <<workflow, template_tasks, workflow_tasks, max_retries,
                   workflow_blocks, block_idx, retry_count, phase_idx, block_success,
                   failed_phase, error, project_files, artifacts, in_flight, pc>>

NextCross ==
    \/ ExecuteWorkflow
    \/ ExecutePhase
    \/ BlockCompleted
    \/ NoRetryAbort
    \/ RetryBlock
    \/ BlockExhausted
    \/ TriggerPhaseRetry

SpecCross == InitCross /\ [][NextCross]_vars

\* the phases whose tracker has recorded a retry
PhasesWithRetries == {p \in DOMAIN retry_trackers : retry_trackers[p].retry_count > 0}

RECURSIVE SumRetryCounts(_)
SumRetryCounts(S) ==
    IF S = {} THEN 0
    ELSE LET p == CHOOSE x \in S : TRUE
         IN  retry_trackers[p].retry_count + SumRetryCounts(S \ {p})

\* C24: get_retry_status reports the number of trackers as total_phases, the
\* number of trackers with retry_count > 0 as phases_with_retries and the sum
\* of all retry_count values as total_retry_attempts.
C24_RetryStatus ==
    LET status == GetRetryStatus(workflow, retry_trackers)
    IN  /\ status.total_phases = Cardinality(DOMAIN retry_trackers)
        /\ status.phases_with_retries = Cardinality(PhasesWithRetries)
        /\ status.total_retry_attempts = SumRetryCounts(DOMAIN retry_trackers)
        /\ DOMAIN status.phase_details = DOMAIN retry_trackers

\* one tracker has recorded several retries, another has recorded none
C24_Witness ==
    \E p, q \in DOMAIN retry_trackers :
        /\ retry_trackers[p].retry_count >= 2
        /\ retry_trackers[q].retry_count = 0
        /\ GetRetryStatus(workflow, retry_trackers).phases_with_retries = 1

\* C25: once execute_workflow has started there is a tracker for exactly the
\* declared phases; the step that starts the workflow leaves every tracker at
\* retry_count 0 with an empty history; afterwards no tracker is removed, and
\* a step changes the trackers only by one _trigger_phase_retry call, which
\* adds one to the count of a single tracker.
C25_TrackersKept ==
    /\ [](pc # "idle" => DOMAIN retry_trackers = Range(AllPhases(workflow)))
    /\ [][(pc = "idle" /\ pc' # "idle") =>
             \A p \in Range(AllPhases(workflow)) :
                 /\ p \in DOMAIN retry_trackers'
                 /\ retry_trackers'[p].retry_count = 0
                 /\ retry_trackers'[p].retry_history = <<>>]_vars
    /\ [][(pc # "idle" /\ retry_trackers' # retry_trackers) =>
             /\ DOMAIN retry_trackers' = DOMAIN retry_trackers
             /\ TriggerCalls' = TriggerCalls + 1
             /\ \E p \in DOMAIN retry_trackers :
                   /\ retry_trackers'[p].retry_count = retry_trackers[p].retry_count + 1
                   /\ \A q \in DOMAIN retry_trackers \ {p} :
                         retry_trackers'[q] = retry_trackers[q]]_vars

\* a block is being replayed, one tracker has been triggered and the other
\* still has its initial count
C25_Witness ==
    /\ pc = "running"
    /\ retry_count >= 1
    /\ \E p, q \in DOMAIN retry_trackers :
          /\ retry_trackers[p].retry_count = 1
          /\ retry_trackers[q] = PhaseRetryTracker(q)

\* C29 (as claimed): in every state every tracker satisfies
\* retry_count <= max_retries.
C29_Claim ==
    \A p \in DOMAIN retry_trackers :
        retry_trackers[p].retry_count <= retry_trackers[p].max_retries

\* --------------------------------------------------------- artifact discovery
\* Config.ARTIFACT_EXTENSIONS
ARTIFACT_EXTENSIONS ==
    {<<".","m","d">>,
     <<".","p","y">>,
     <<".","j","s","o","n">>,
     <<".","y","a","m","l">>,
     <<".","y","m","l">>,
     <<".","t","x","t">>,
     <<".","j","s">>,
     <<".","c","s","s">>,
     <<".","h","t","m","l">>,
     <<".","t","s","x">>,
     <<".","t","s">>}

\* Config.IGNORE_PATTERNS
IGNORE_PATTERNS ==
    {<<".","g","i","t">>,
     <<"_","_","p","y","c","a","c","h","e","_","_">>,
     <<".","v","s","c","o","d","e">>,
     <<".","i","d","e","a">>,
     <<"n","o","d","e","_","m","o","d","u","l","e","s">>,
     <<".","e","n","v">>}

\* the characters of the modelled paths in code point order, the order in
\* which sorted() compares strings
CodePoints ==
    <<".","/","0","1","2","3","4","5","6","7","8","9","A","B","C","D",
      "E","F","G","H","I","J","K","L","M","N","O","P","Q","R","S","T",
      "U","V","W","X","Y","Z","_","a","b","c","d","e","f","g","h","i",
      "j","k","l","m","n","o","p","q","r","s","t","u","v","w","x","y",
      "z">>

CodePoint(c) == CHOOSE i \in 1..Len(CodePoints) : CodePoints[i] = c

\* s < t for two Python strings
RECURSIVE StrLess(_, _)
StrLess(s, t) ==
    IF t = <<>> THEN FALSE
    ELSE IF s = <<>> THEN TRUE
    ELSE IF Head(s) = Head(t) THEN StrLess(Tail(s), Tail(t))
    ELSE CodePoint(Head(s)) < CodePoint(Head(t))

\* sorted(artifacts) for a list without repeated entries
RECURSIVE Sorted(_)
Sorted(S) ==
    IF S = {} THEN <<>>
    ELSE LET least == CHOOSE x \in S : \A y \in S \ {x} : StrLess(x, y)
         IN  <<least>> \o Sorted(S \ {least})

\* str.rfind(c): the last index (from 1) of c in s, 0 when absent
RFind(s, c) ==
    IF \E i \in 1..Len(s) : s[i] = c
    THEN CHOOSE i \in 1..Len(s) : s[i] = c /\ \A j \in (i + 1)..Len(s) : s[j] # c
    ELSE 0

\* PurePath.name: the last component of the path
PathName(path) == SubSeq(path, RFind(path, "/") + 1, Len(path))

\* PurePath.suffix: the name from its last dot on, empty when the name has no
\* dot or the dot is its first or its last character
PathSuffix(path) ==
    LET name == PathName(path)
        i    == RFind(name, ".")
    IN  IF 1 < i /\ i < Len(name) THEN SubSeq(name, i, Len(name)) ELSE <<>>

\* faulty variant: a pattern is compared with the first component of the path
\* instead of being searched in the whole relative path
DetectCreatedFiles_ByComponent(files) ==
    Sorted({f \in files :
               /\ ~\E pattern \in IGNORE_PATTERNS :
                      /\ Len(f) >= Len(pattern)
                      /\ SubSeq(f, 1, Len(pattern)) = pattern
                      /\ (Len(f) = Len(pattern) \/ f[Len(pattern) + 1] = "/")
               /\ PathSuffix(f) \in ARTIFACT_EXTENSIONS})

\* _detect_created_files over the files under working_dir (relative paths);
\* the except branch, taken when the directory walk itself raises, is left out
DetectCreatedFiles(files) ==
    Sorted({f \in files :
               /\ ~\E pattern \in IGNORE_PATTERNS : Contains(pattern, f)
               /\ PathSuffix(f) \in ARTIFACT_EXTENSIONS})

\* most files in a modelled working directory
MaxTreeFiles == 4

path_app      == <<"a","p","p",".","p","y">>
path_readme   == <<"R","E","A","D","M","E",".","m","d">>
path_git_hook == <<".","g","i","t","/","h",".","p","y">>
path_module   == <<"n","o","d","e","_","m","o","d","u","l","e","s","/","m",".","j","s">>
path_envs     == <<".","e","n","v","s",".","p","y">>
path_dotenv   == <<".","e","n","v">>
path_logo     == <<"l","o","g","o",".","p","n","g">>
path_makefile == <<"M","a","k","e","f","i","l","e">>
path_notes    == <<"n","o","t","e","s",".","T","X","T">>
path_view     == <<"u","i","/","v","i","e","w",".","t","s","x">>
path_hidden   == <<"u","i","/",".","t","s">>

\* relative paths a working directory may hold: sources, ignored directories,
\* names that contain an ignore pattern, extensions outside the allow-list,
\* names without an extension
TreePaths ==
    {path_app, path_readme, path_git_hook, path_module,
     path_envs, path_dotenv, path_logo, path_makefile,
     path_notes, path_view, path_hidden}

\* state after __init__, the working directory holding no file yet
InitTree ==
    /\ workflow = <<[phase |-> ph_development, agent |-> python_developer,
                     dependencies |-> <<>>]>>
    /\ template_tasks = [p \in {ph_development} |-> TaskInfo(<<>>)]
    /\ workflow_tasks = CreateAgentTasks(workflow, template_tasks)
    /\ max_retries = 3
    /\ results = <<>>
    /\ retry_trackers = <<>>
    /\ workflow_blocks = <<>>
    /\ block_idx = 0
    /\ retry_count = 0
    /\ phase_idx = 0
    /\ block_success = TRUE
    /\ failed_phase = None
    /\ error = None
    /\ project_files = {}
    /\ system_logs = InitialSystemLogs
    /\ in_flight = {}
    /\ artifacts = None
    /\ pc = "idle"

\* a file appears under the working directory
TreeFileCreated ==
    /\ Cardinality(project_files) < MaxTreeFiles
    /\ \E f \in TreePaths \ project_files : project_files' = project_files \cup {f}
    /\ UNCHANGED <<workflow, template_tasks, workflow_tasks, max_retries, results,
                   retry_trackers, workflow_blocks, block_idx, retry_count, phase_idx,
                   block_success, failed_phase, error, system_logs, in_flight,
                   artifacts, pc>>

\* artifacts = self._detect_created_files()
DetectCreatedFilesCall ==
    /\ artifacts' = DetectCreatedFiles(project_files)
    /\ UNCHANGED <<workflow, template_tasks, workflow_tasks, max_retries, results,
                   retry_trackers, workflow_blocks, block_idx, retry_count, phase_idx,
                   block_success, failed_phase, error, project_files, system_logs,
                   in_flight, pc>>

NextTree ==
    \/ TreeFileCreated
    \/ DetectCreatedFilesCall

SpecTree == InitTree /\ [][NextTree]_vars

\* the relative path names an allow-listed extension after a non-empty stem
HasAllowedExtension(f) ==
    \E ext \in ARTIFACT_EXTENSIONS :
        /\ Len(f) > Len(ext)
        /\ EndsWith(f, ext)
        /\ f[Len(f) - Len(ext)] # "/"

C37_TriggerFrame ==
    [][(pc # "idle" /\ retry_trackers' # retry_trackers) =>
          \E p \in DOMAIN retry_trackers :
              /\ retry_trackers'[p].retry_count = retry_trackers[p].retry_count + 1
              /\ Len(retry_trackers'[p].retry_history)
                    = Len(retry_trackers[p].retry_history) + 1
              /\ \A q \in DOMAIN retry_trackers \ {p} :
                    retry_trackers'[q] = retry_trackers[q]
              /\ DOMAIN results' =
                    {q \in DOMAIN results : DeclaredAt(q) < DeclaredAt(p)}
              /\ \A q \in DOMAIN results' : results'[q] = results[q]]_vars

\* the workflow returned with both results, then a retry of the second
\* declared phase was triggered: its result is gone, the first phase's stays
C37_Witness ==
    /\ pc = "returned"
    /\ AllPhases(workflow)[1] \in DOMAIN results
    /\ AllPhases(workflow)[2] \notin DOMAIN results
    /\ retry_trackers[AllPhases(workflow)[1]].retry_count = 0
    /\ retry_trackers[AllPhases(workflow)[2]].retry_count = 1

\* ----------------------------------------------- the first failure ends it
\* the block attempt in progress has failed
AttemptFailed == pc = "running" /\ ~block_success

\* C31: in a failed attempt the recorded failing phase is the phase the loop
\* stopped at, it has no task or an unsuccessful result, no phase before it
\* in the block failed in this attempt and no phase after it was executed in
\* this attempt; until the attempt is retried or the workflow aborts no
\* result is written and the recorded failing phase stays.
C31_FirstFailureStops ==
    /\ [](AttemptFailed =>
             /\ phase_idx \in 1..Len(block_phases)
             /\ failed_phase = block_phases[phase_idx]
             /\ \/ FindTaskForPhase(workflow_tasks, failed_phase) = None
                \/ /\ failed_phase \in DOMAIN results
                   /\ ~results[failed_phase].success
             /\ \A i \in 1..Len(block_phases) :
                   (/\ block_phases[i] \in DOMAIN results
                    /\ results[block_phases[i]].execution_log = CurrentAttempt
                    /\ block_phases[i] # failed_phase) =>
                       /\ i < phase_idx
                       /\ results[block_phases[i]].success)
    /\ [][AttemptFailed =>
             /\ \A p \in DOMAIN results' :
                   p \in DOMAIN results /\ results'[p] = results[p]
             /\ (failed_phase' # failed_phase => failed_phase' = None)]_vars

\* the first phase of a block of two failed in a replayed attempt after it
\* was executed; the second phase has no result
C31_Witness ==
    /\ AttemptFailed
    /\ retry_count >= 1
    /\ Len(block_phases) = 2
    /\ phase_idx = 1
    /\ block_phases[1] \in DOMAIN results
    /\ block_phases[2] \notin DOMAIN results

\* ------------------------------------------------------------- termination
\* the executor has not returned or raised: it is about to enter the retry
\* loop, inside the for loop of an attempt, or at the end of an attempt
CanStep == pc = "idle" \/ InPhaseLoop \/ AttemptOver

\* the runs of the three-phase workflows in which the executor is not
\* suspended for ever: every external call and every sleep returns, so the
\* single coroutine keeps taking steps for as long as it has one to take.
\* This is WF_vars(Next) written out, with the enabling condition of Next
\* given by CanStep.
SpecTrioLive ==
    /\ InitTrio
    /\ [][Next]_vars
    /\ ([]<>~CanStep \/ []<><<Next>>_vars)

\* attempt ceiling times block size, summed over the blocks from index from on
RECURSIVE ExecutionBudget(_)
ExecutionBudget(from) ==
    IF from > Len(workflow_blocks) THEN 0
    ELSE EffectiveMaxRetries(workflow_blocks[from].name) * Len(workflow_blocks[from].phases)
         + ExecutionBudget(from + 1)

\* phase executions the run can still make: the rest of the attempt in
\* progress, the attempts the block has left, and the blocks still to come
ExecutionsLeft ==
    IF pc # "running" THEN 0
    ELSE (IF block_success THEN Len(block_phases) + 1 - phase_idx ELSE 0)
         + (EffectiveMaxRetries(block_name) - (retry_count + 1)) * Len(block_phases)
         + ExecutionBudget(block_idx + 1)

\* C32: execute_workflow ends, by returning or by raising; the run starts
\* with a budget of ceiling times block size summed over the blocks, every
\* phase execution uses up at least one unit of it, no step adds to it and
\* it is never overdrawn, so there are at most that many phase executions.
C32_Terminates ==
    /\ <>(pc \in {"returned", "raised"})
    /\ [](ExecutionsLeft >= 0)
    /\ [][/\ pc = "idle" => ExecutionsLeft' <= ExecutionBudget(1)'
          /\ pc = "running" => ExecutionsLeft' <= ExecutionsLeft
          /\ PhaseExecuted => ExecutionsLeft' <= ExecutionsLeft - 1]_vars

\* the last phase of the last attempt of a two-phase block is about to be
\* handled: one execution is left of the ten the block had
C32_Witness ==
    /\ InPhaseLoop
    /\ retry_count + 1 = max_block_retries
    /\ Len(block_phases) = 2
    /\ phase_idx = 2
    /\ EffectiveMaxRetries(block_name) * Len(block_phases) = 10
    /\ ExecutionsLeft = 1

\* ------------------------------------------------ results of a normal return
\* phases whose stored result is unsuccessful
UnsuccessfulPhases == {p \in DOMAIN results : ~results[p].success}

\* C33: when execute_workflow has returned normally every stored result is
\* successful; an unsuccessful result is in the map only between the failure
\* of a block attempt and the retry's clear step, or after the abort.
C33_ReturnedAllSuccessful ==
    /\ pc = "returned" => UnsuccessfulPhases = {}
    /\ UnsuccessfulPhases # {} => (AttemptFailed /\ UnsuccessfulPhases = {failed_phase}) \/ pc = "raised"

\* the run has returned with results and a block of it was retried after a
\* failed attempt
C33_Witness ==
    /\ pc = "returned"
    /\ DOMAIN results # {}
    /\ \E p \in DOMAIN results : results[p].execution_log.attempt > 1

\* -------------------------------------------------------- frame of a retry
\* the entries of the result map at phases outside the block being handled
OutsideBlock(res) == [p \in DOMAIN res \ Range(block_phases) |-> res[p]]

\* a step of the retry of the block being handled: the clear step, or a
\* step of an attempt after the first
RetryStep == pc = "running" /\ retry_count' >= 1 /\ block_idx' = block_idx

\* C34: the clear step and every step of the replay of block B leave the
\* result map as it was at every phase that is not in B's phase list.
C34_RetryFrame ==
    [][RetryStep => OutsideBlock(results') = OutsideBlock(results)]_vars

\* the replay of a block has stored a result while the map holds the result
\* of a phase of an earlier block
C34_Witness ==
    /\ pc = "running"
    /\ retry_count >= 1
    /\ DOMAIN results \ Range(block_phases) # {}
    /\ \E p \in DOMAIN results \cap Range(block_phases) :
           results[p].execution_log = CurrentAttempt

\* ------------------------------------------- phase names that are suffixes
\* a phase named 'test': "_test" ends the task id of the phase 'UI_test'
ph_test == kw_test

SuffixCatalog ==
    << [phase |-> ph_planning, agent |-> pm],
       [phase |-> ph_UI_test,  agent |-> ui_designer],
       [phase |-> ph_test,     agent |-> tester] >>

\* the three phases in every declaration order; at most one of them (the
\* who-th declared) declares a dependency, on one of the other two
SuffixWorkflows ==
    UNION { { [i \in 1..3 |-> [phase        |-> SuffixCatalog[f[i]].phase,
                               agent        |-> SuffixCatalog[f[i]].agent,
                               dependencies |-> IF i = who THEN deps ELSE <<>>]]
              : deps \in {<<>>} \cup {<<SuffixCatalog[f[j]].phase>> : j \in (1..3) \ {who}} }
            : f \in Orderings(1..3), who \in 1..3 }

\* state after __init__ for one of these workflows
InitSuffix ==
    /\ workflow \in SuffixWorkflows
    /\ template_tasks \in TaskCatalogs(workflow)
    /\ workflow_tasks = CreateAgentTasks(workflow, template_tasks)
    /\ max_retries = 5
    /\ results = <<>>
    /\ retry_trackers = <<>>
    /\ workflow_blocks = <<>>
    /\ block_idx = 0
    /\ retry_count = 0
    /\ phase_idx = 0
    /\ block_success = TRUE
    /\ failed_phase = None
    /\ error = None
    /\ project_files = {}
    /\ system_logs = InitialSystemLogs
    /\ in_flight = {}
    /\ artifacts = None
    /\ pc = "idle"

SpecSuffix == InitSuffix /\ [][Next]_vars

\* the id of the task create_agent_tasks compiles for the declared phase p
CompiledTaskId(p) == TaskId(GetPhaseInfo(workflow, p).agent, p)

\* C35: the task the executor finds for the phase it is about to execute is
\* the one compiled for that phase, and so every stored result carries the
\* id of the task compiled for its phase, also when a phase name is an
\* underscore-delimited suffix of another.
C35_Claim ==
    /\ (InPhaseLoop /\ GateOpen) =>
           \A i \in 1..Len(workflow_tasks) :
               workflow_tasks[i] = FindTaskForPhase(workflow_tasks, phase_name)
                   => workflow_tasks[i].task_id = CompiledTaskId(phase_name)
    /\ \A p \in DOMAIN results : results[p].task_id = CompiledTaskId(p)

\* ------------------------------------------- execute_workflow called again
\* calls of execute_workflow modelled on one orchestrator
MaxCalls == 2

\* two of the three phases, in either order; one of them may depend on the other
AgainWorkflows ==
    { [i \in 1..2 |-> [phase        |-> TrioCatalog[f[i]].phase,
                       agent        |-> TrioCatalog[f[i]].agent,
                       dependencies |-> IF i = who THEN <<TrioCatalog[f[3 - i]].phase>>
                                        ELSE <<>>]]
      : f \in {g \in [1..2 -> 1..3] : g[1] # g[2]}, who \in 0..2 }

\* state after __init__ for one of these workflows
InitAgain ==
    /\ workflow \in AgainWorkflows
    /\ template_tasks \in TaskCatalogs(workflow)
    /\ workflow_tasks = CreateAgentTasks(workflow, template_tasks)
    /\ max_retries = 5
    /\ results = <<>>
    /\ retry_trackers = <<>>
    /\ workflow_blocks = <<>>
    /\ block_idx = 0
    /\ retry_count = 0
    /\ phase_idx = 0
    /\ block_success = TRUE
    /\ failed_phase = None
    /\ error = None
    /\ project_files = {}
    /\ system_logs = InitialSystemLogs
    /\ in_flight = {}
    /\ artifacts = None
    /\ pc = "idle"

\* number of execute_workflow calls made so far
WorkflowCalls ==
    Cardinality({i \in 1..Len(system_logs) :
                    system_logs[i].message[1] = "Starting workflow execution"})

\* faulty variant: the result map is emptied when execute_workflow is entered
ExecuteWorkflowAgain_ClearsResults ==
    /\ pc \in {"returned", "raised"}
    /\ WorkflowCalls < MaxCalls
    /\ results' = <<>>
    /\ retry_trackers' = InitRetryTrackers(retry_trackers, workflow)
    /\ \E misc_order \in Orderings(UncoveredPhases(AllPhases(workflow))) :
          workflow_blocks' = DefineWorkflowBlocks(AllPhases(workflow), misc_order)
    /\ block_idx' = 1
    /\ retry_count' = 0
    /\ phase_idx' = 1
    /\ block_success' = TRUE
    /\ failed_phase' = None
    /\ error' = None
    /\ pc' = IF workflow_blocks' = <<>> THEN "returned" ELSE "running"
    /\ system_logs' = IF workflow_blocks' = <<>>
                      THEN LogWorkflowCompleted(LogWorkflowStart(system_logs))
                      ELSE LogWorkflowStart(system_logs)
    /\ UNCHANGED <<workflow, template_tasks, workflow_tasks, max_retries,
                   project_files, artifacts, in_flight>>

\* execute_workflow called on an orchestrator whose earlier call has returned
\* or raised: lines 115-130 run as in the first call; self.results is the
\* map the earlier call left (it is assigned in __init__ only)
ExecuteWorkflowAgain ==
    /\ pc \in {"returned", "raised"}
    /\ WorkflowCalls < MaxCalls
    /\ retry_trackers' = InitRetryTrackers(retry_trackers, workflow)
    /\ \E misc_order \in Orderings(UncoveredPhases(AllPhases(workflow))) :
          workflow_blocks' = DefineWorkflowBlocks(AllPhases(workflow), misc_order)
    /\ block_idx' = 1
    /\ retry_count' = 0
    /\ phase_idx' = 1
    /\ block_success' = TRUE
    /\ failed_phase' = None
    /\ error' = None
    /\ pc' = IF workflow_blocks' = <<>> THEN "returned" ELSE "running"
    /\ system_logs' = IF workflow_blocks' = <<>>
                      THEN LogWorkflowCompleted(LogWorkflowStart(system_logs))
                      ELSE LogWorkflowStart(system_logs)
    /\ UNCHANGED <<workflow, template_tasks, workflow_tasks, max_retries, results,
                   project_files, artifacts, in_flight>>

NextAgain ==
    \/ ExecuteWorkflow
    \/ ExecuteWorkflowAgain
    \/ SkipPhase
    \/ ExecutePhase
    \/ NoTaskForPhase
    \/ BlockCompleted
    \/ NoRetryAbort
    \/ RetryBlock
    \/ BlockExhausted

SpecAgain == InitAgain /\ [][NextAgain]_vars

\* phase p declares a dependency all of whose blocks come after every block
\* of p: in a first call the gate finds no result for it when p is reached
GatedInFirstCall(p) ==
    /\ GetPhaseInfo(workflow, p) # None
    /\ \E d \in Range(GetPhaseInfo(workflow, p).dependencies) :
           \A i, j \in 1..Len(workflow_blocks) :
               (p \in Range(workflow_blocks[i].phases) /\ d \in Range(workflow_blocks[j].phases))
                   => i < j

\* C36: entering execute_workflow again leaves the result map as the earlier
\* call left it; the gate of the second call reads those entries, so a phase
\* gated out throughout the first call has a result only in the second; an
\* entry gets a new value only in a step that executes its phase (and goes
\* away only in the clear step of a retry of a block that lists the phase).
C36_ResultsKeptAcrossCalls ==
    /\ [](WorkflowCalls = 1 => \A p \in DOMAIN results : ~GatedInFirstCall(p))
    /\ [][/\ pc \in {"returned", "raised"} => results' = results
          /\ \A q \in DOMAIN results :
                /\ (q \in DOMAIN results' /\ results'[q] # results[q])
                       => (PhaseExecuted /\ phase_name = q)
                /\ q \notin DOMAIN results'
                       => (AttemptFailed /\ q \in Range(block_phases)
                           /\ retry_count' = retry_count + 1)]_vars

\* the second call has executed a phase that was gated out in the first,
\* its dependency being met by a result the first call left
C36_Witness ==
    /\ WorkflowCalls = 2
    /\ \E p \in DOMAIN results :
           /\ GatedInFirstCall(p)
           /\ results[p].success
           /\ \A d \in Range(GetPhaseInfo(workflow, p).dependencies) :
                  d \in DOMAIN results /\ results[d].success

====
